---- MODULE Spec2Model ----
(***************************************************************************)
(* State-machine model of the COT/price backtesting engine                 *)
(* (src/utils/backtester.py, class Backtester) and of the COT loader       *)
(* (src/data_engine.py, DataEngine.load_cot_data).                         *)
(*                                                                         *)
(* Specifications.                                                         *)
(*   Spec       a Backtester on short tables, every public method called   *)
(*   SweepSpec  the same on tables long enough for the sweep to keep rows  *)
(*   OrderSpec  a Backtester on COT tables in any row order                *)
(*   PriceSpec  load_price_data_from_file on price files                   *)
(*   LoadSpec   DataEngine.load_cot_data on lists of COT files             *)
(*   MergeSpec  DataEngine load_cot_data, load_price_data and merge_data   *)
(*   SharpeSpec get_strategy_stats with its Sharpe ratio, in doubles       *)
(*                                                                         *)
(* Representation.                                                         *)
(*   - A DataFrame is [rows |-> s], s the sequence of its rows (one record *)
(*     per row, in row order); Python's None is the record [none |-> TRUE];*)
(*     a returned bool b is [value |-> b]; a dict is a record.             *)
(*   - A date is a day number (an integer); timedelta(days=7) is +7.       *)
(*   - A price is an integer number of 1/PriceScale currency units, so     *)
(*     18.0000 is 180000.  The model's prices are multiples of 0.001, for  *)
(*     which price_change * 1000 is a whole number of pips.                *)
(*   - Money is in whole dollars; risk_per_trade is in percent (0.01 is 1).*)
(*     The model's capitals make every trade_profit a whole dollar amount. *)
(*   - Floating-point rounding error is not modelled: arithmetic is exact, *)
(*     but for the Sharpe ratio, computed in IEEE-754 doubles (SharpeSpec).*)
(***************************************************************************)
EXTENDS Integers, Sequences, FiniteSets, TLC

VARIABLES
    cot_data,     \* Backtester.cot_data: None or the COT table
    price_data,   \* Backtester.price_data: None or the price table
    call,         \* the last method called on the Backtester, with its arguments
    ret           \* what that call returned

vars == <<cot_data, price_data, call, ret>>

None == [none |-> TRUE]

DataFrame(rows) == [rows |-> rows]

Bool(b) == [value |-> b]

(***************************************************************************)
(* Bounds of the model and the input domains.                              *)
(***************************************************************************)
MaxCot == 3          \* COT tables have at most MaxCot rows (weekly reports)

PriceScale == 10 * 1000     \* a price p is stored as p * PriceScale

\* report dates: day 0, 7, 14, ... (one per week)
CotDay(k) == 7 * (k - 1)
\* commercial_net values: below, at and above the default threshold
Nets == {-60000, -50000, -10000}
\* days on which a price may exist: the day after the first report, the
\* second report's day (= the first report's exit target), and a later day
PriceDays == {1, 7, 15}
\* 12.000, 18.000, 18.070: moves of +70 and -70 pips, and a crash of 6000 pips
Prices == {120000, 180000, 180700}

(***************************************************************************)
(* Generic helpers on tables.                                              *)
(***************************************************************************)
MinOf(S) == CHOOSE x \in S : \A y \in S : x <= y

MaxOf(S) == CHOOSE x \in S : \A y \in S : x >= y

RECURSIVE SumSeq(_)
SumSeq(s) == IF s = <<>> THEN 0 ELSE Head(s) + SumSeq(Tail(s))

\* the table with one row row[d] per day d of `days`, ascending by day
RECURSIVE RowsAscending(_, _)
RowsAscending(days, row) ==
    IF days = {} THEN <<>>
    ELSE LET d == MinOf(days) IN <<row[d]>> \o RowsAscending(days \ {d}, row)

Reverse(s) == [i \in 1..Len(s) |-> s[Len(s) + 1 - i]]

\* Python's round(num/den, k) as an integer count of 10^-k, given num already
\* scaled by 10^k: the nearest integer, a tie going to the even one
RoundHalfEven(num, den) ==
    LET n == IF den < 0 THEN -num ELSE num
        d == IF den < 0 THEN -den ELSE den
        q == n \div d
        r == n - q * d
    IN  IF 2 * r < d THEN q
        ELSE IF 2 * r > d THEN q + 1
        ELSE IF q % 2 = 0 THEN q ELSE q + 1

(***************************************************************************)
(* The calendar: a Timestamp is the day number counted from 2000-01-01.    *)
(***************************************************************************)
IsLeap(y) == (y % 4 = 0 /\ y % 100 /= 0) \/ y % 400 = 0

\* the days of a common year before month m
DaysBeforeMonth == <<0, 31, 59, 90, 120, 151, 181, 212, 243, 273, 304, 334>>

\* the leap days from 2000-01-01 up to the start of year y (y >= 2000)
LeapDaysBefore(y) ==
    ((y - 1) \div 4 - (y - 1) \div 100 + (y - 1) \div 400)
        - (1999 \div 4 - 1999 \div 100 + 1999 \div 400)

\* the Timestamp of a calendar date
Timestamp(y, m, d) ==
    365 * (y - 2000) + LeapDaysBefore(y) + DaysBeforeMonth[m]
        + (IF m > 2 /\ IsLeap(y) THEN 1 ELSE 0) + (d - 1)

(***************************************************************************)
(* The tables a caller can hand to the Backtester.                         *)
(***************************************************************************)
CotRow(d, n) == [cot_date |-> d, commercial_net |-> n]

\* COT tables: n <= MaxCot consecutive weekly reports, ascending
CotTables ==
    UNION { { DataFrame([k \in 1..n |-> CotRow(CotDay(k), net[k])]) : net \in [1..n -> Nets] }
            : n \in 0..MaxCot }

PriceRow(d, p) == [date |-> d, price |-> p]

PriceRowsAscending ==
    UNION { { RowsAscending(D, [d \in D |-> PriceRow(d, px[d])]) : px \in [D -> Prices] }
            : D \in SUBSET PriceDays }

\* the caller's price table is in either file order: oldest first or newest first
PriceInputs ==
    { DataFrame(t) : t \in PriceRowsAscending } \cup
    { DataFrame(Reverse(t)) : t \in PriceRowsAscending }

(***************************************************************************)
(* Backtester.__init__ / set_price_data: price_data.sort_values('date')    *)
(***************************************************************************)
RECURSIVE SortByDate(_)
SortByDate(t) ==
    IF t = <<>> THEN <<>>
    ELSE LET m == MinOf({ t[i].date : i \in 1..Len(t) })
             k == MinOf({ i \in 1..Len(t) : t[i].date = m })
             rest == [i \in 1..(Len(t) - 1) |-> IF i < k THEN t[i] ELSE t[i + 1]]
         IN  <<t[k]>> \o SortByDate(rest)

CopyAndSortPrices(p) == IF p = None THEN None ELSE DataFrame(SortByDate(p.rows))

(***************************************************************************)
(* Program constants.                                                      *)
(***************************************************************************)
PIP_MULTIPLIER_BT == 1000     \* pips = price_change * 1000
EXIT_LAG_DAYS == 7            \* timedelta(days=7)
spread_pips == 3
stop_loss_pips == 50
PIP_DOLLAR_VALUE == 10        \* the 10 of stop_loss_pips * 10 and net_pips * 10
DEFAULT_THRESHOLD == -50000
DEFAULT_CAPITAL == 10000
DEFAULT_RISK_PCT == 1         \* risk_per_trade=0.01
MIN_ROW_TRADES == 5           \* analyze_thresholds keeps len(trades_df) > 5
STATS_CAPITAL == 10000        \* the literal 10000 of final_equity / roi_pct

\* the thresholds analyze_thresholds sweeps, in its order
SweepThresholds == <<-70000, -60000, -50000, -40000, -30000, -20000, -10000>>

(***************************************************************************)
(* Backtester.align_cot_with_prices                                        *)
(***************************************************************************)
\* mutant: the entry filter taken inclusive (date >= cot_date)
PriceAfterCot_Inclusive(price_df, cot_date) ==
    SelectSeq(price_df, LAMBDA p : p.date >= cot_date)

\* price_df[price_df['date'] > cot_date]
PriceAfterCot(price_df, cot_date) == SelectSeq(price_df, LAMBDA p : p.date > cot_date)

\* mutant: the exit filter taken strict (date > exit_date_target)
PriceOnExit_Strict(price_df, exit_date_target) ==
    SelectSeq(price_df, LAMBDA p : p.date > exit_date_target)

\* mutant: the exit searched from the report's own date (the 7-day lag dropped)
PriceOnExit_NoLag(price_df, exit_date_target) ==
    SelectSeq(price_df, LAMBDA p : p.date >= exit_date_target - EXIT_LAG_DAYS)

\* price_df[price_df['date'] >= exit_date_target]
PriceOnExit(price_df, exit_date_target) ==
    SelectSeq(price_df, LAMBDA p : p.date >= exit_date_target)

\* pips = price_change * 1000, for a price_change held in 1/PriceScale units
PipsOf(price_change) == (price_change * PIP_MULTIPLIER_BT) \div PriceScale

\* the dict appended for one COT row with an entry and an exit price point
AlignedRecord(cot_row, entry, exit) ==
    [ cot_date       |-> cot_row.cot_date,
      entry_date     |-> entry.date,
      exit_date      |-> exit.date,
      entry_price    |-> entry.price,
      exit_price     |-> exit.price,
      commercial_net |-> cot_row.commercial_net,
      pips           |-> PipsOf(exit.price - entry.price),
      pct_return     |-> [num |-> (exit.price - entry.price) * 100, den |-> entry.price],
      price_change   |-> exit.price - entry.price ]

\* mutant: the loop taken over every row, range(len(cot_df))
LoopRows_All(cot_df) == 1..Len(cot_df)

\* the rows the loop visits: range(len(cot_df) - 1)
LoopRows(cot_df) == 1..(Len(cot_df) - 1)

\* mutant: a join that emits one record per price point on or after the target
AlignRow_EveryExit(cot_df, price_df, i) ==
    LET cot_date == cot_df[i].cot_date
        price_after_cot == SelectSeq(price_df, LAMBDA p : p.date > cot_date)
        price_on_exit == SelectSeq(price_df, LAMBDA p : p.date >= cot_date + EXIT_LAG_DAYS)
    IN  IF Len(price_after_cot) = 0 THEN <<>>
        ELSE [k \in 1..Len(price_on_exit) |->
                 AlignedRecord(cot_df[i], price_after_cot[1], price_on_exit[k])]

\* one pass of the loop body: the records row i appends (none or one)
AlignRow(cot_df, price_df, i) ==
    LET cot_date == cot_df[i].cot_date
        price_after_cot == PriceAfterCot(price_df, cot_date)
        price_on_exit == PriceOnExit(price_df, cot_date + EXIT_LAG_DAYS)
    IN  IF Len(price_after_cot) = 0 THEN <<>>
        ELSE IF Len(price_on_exit) > 0
             THEN << AlignedRecord(cot_df[i], price_after_cot[1], price_on_exit[1]) >>
             ELSE <<>>

RECURSIVE AlignedData(_, _, _)
AlignedData(cot_df, price_df, i) ==
    IF i \notin LoopRows(cot_df) THEN <<>>
    ELSE AlignRow(cot_df, price_df, i) \o AlignedData(cot_df, price_df, i + 1)

align_cot_with_prices(cot, price) ==
    IF price = None \/ cot = None THEN None
    ELSE LET aligned_data == AlignedData(cot.rows, price.rows, 1)
         IN  IF aligned_data = <<>> THEN None ELSE DataFrame(aligned_data)

(***************************************************************************)
(* Backtester.backtest_threshold                                           *)
(***************************************************************************)
\* mutant: the comparison taken inclusive (commercial_net <= threshold)
Signal_Inclusive(commercial_net, threshold) == commercial_net <= threshold

\* mutant: the comparison turned round (commercial_net > threshold)
Signal_Above(commercial_net, threshold) == commercial_net > threshold

\* aligned_df['signal'] = (aligned_df['commercial_net'] < threshold)
Signal(commercial_net, threshold) == commercial_net < threshold

\* position_size = (capital * risk_per_trade) / (stop_loss_pips * 10), a fraction
PositionSize(capital, risk_pct) ==
    [num |-> capital * risk_pct, den |-> 100 * stop_loss_pips * PIP_DOLLAR_VALUE]

\* mutant: the spread charged against the move (added to a negative raw move)
NetPips_SignedCost(pips) == IF pips < 0 THEN pips + spread_pips ELSE pips - spread_pips

\* net_pips = pips - spread_pips
NetPips(pips) == pips - spread_pips

\* the pips that enter trade_profit
ProfitPips(net_pips) == net_pips

\* trade_profit = net_pips * 10 * position_size
TradeProfit(net_pips, position_size) ==
    (ProfitPips(net_pips) * PIP_DOLLAR_VALUE * position_size.num) \div position_size.den

\* mutant: the default capital used in place of the argument
Equity_DefaultCapital(capital, cumulative_profit) == DEFAULT_CAPITAL + cumulative_profit

\* equity = capital + cumulative_profit
Equity(capital, cumulative_profit) == capital + cumulative_profit

\* mutant: the position re-sized before every trade from the equity reached so far
RECURSIVE Ledger_Compounding(_, _, _, _)
Ledger_Compounding(trades, position_size, capital, cumulative_before) ==
    IF trades = <<>> THEN <<>>
    ELSE LET t == Head(trades)
             resized == [num |-> (capital + cumulative_before) * (position_size.num \div capital),
                         den |-> position_size.den]
             net_pips == NetPips(t.pips)
             trade_profit == TradeProfit(net_pips, resized)
             cumulative_profit == cumulative_before + trade_profit
             row == [ cot_date          |-> t.cot_date,
                      entry_date        |-> t.entry_date,
                      exit_date         |-> t.exit_date,
                      entry_price       |-> t.entry_price,
                      exit_price        |-> t.exit_price,
                      commercial_net    |-> t.commercial_net,
                      pips              |-> t.pips,
                      pct_return        |-> t.pct_return,
                      price_change      |-> t.price_change,
                      signal            |-> 1,
                      net_pips          |-> net_pips,
                      trade_profit      |-> trade_profit,
                      cumulative_profit |-> cumulative_profit,
                      equity            |-> Equity(capital, cumulative_profit),
                      win               |-> net_pips > 0 ]
         IN  <<row>> \o Ledger_Compounding(Tail(trades), position_size, capital,
                                           cumulative_profit)

RECURSIVE Ledger(_, _, _, _)
Ledger(trades, position_size, capital, cumulative_before) ==
    IF trades = <<>> THEN <<>>
    ELSE LET t == Head(trades)
             net_pips == NetPips(t.pips)
             trade_profit == TradeProfit(net_pips, position_size)
             cumulative_profit == cumulative_before + trade_profit
             row == [ cot_date          |-> t.cot_date,
                      entry_date        |-> t.entry_date,
                      exit_date         |-> t.exit_date,
                      entry_price       |-> t.entry_price,
                      exit_price        |-> t.exit_price,
                      commercial_net    |-> t.commercial_net,
                      pips              |-> t.pips,
                      pct_return        |-> t.pct_return,
                      price_change      |-> t.price_change,
                      signal            |-> 1,
                      net_pips          |-> net_pips,
                      trade_profit      |-> trade_profit,
                      cumulative_profit |-> cumulative_profit,
                      equity            |-> Equity(capital, cumulative_profit),
                      win               |-> net_pips > 0 ]
         IN  <<row>> \o Ledger(Tail(trades), position_size, capital, cumulative_profit)

backtest_threshold(cot, price, threshold, capital, risk_pct) ==
    LET aligned_df == align_cot_with_prices(cot, price)
    IN  IF aligned_df = None THEN None
        ELSE LET trades == SelectSeq(aligned_df.rows,
                               LAMBDA a : Signal(a.commercial_net, threshold))
             IN  IF Len(trades) = 0 THEN None
                 ELSE DataFrame(Ledger(trades, PositionSize(capital, risk_pct), capital, 0))

(***************************************************************************)
(* Statistics shared by analyze_thresholds and get_strategy_stats.         *)
(* A rounded figure is an integer count of its last decimal place:         *)
(* win_rate and avg_* in tenths, profit_factor and max_drawdown_pct in     *)
(* hundredths.  Pips and dollars are whole numbers in the model, so        *)
(* rounding them to one or two decimals leaves them as they are.           *)
(***************************************************************************)
Column(df, c) == [i \in 1..Len(df.rows) |-> df.rows[i][c]]

Positive(xs) == SelectSeq(xs, LAMBDA x : x > 0)

Negative(xs) == SelectSeq(xs, LAMBDA x : x < 0)

SeqMax(xs) == MaxOf({ xs[i] : i \in 1..Len(xs) })

SeqMin(xs) == MinOf({ xs[i] : i \in 1..Len(xs) })

Abs(x) == IF x < 0 THEN -x ELSE x

\* peak = equity.expanding().max()
Peak(equity) == [i \in 1..Len(equity) |-> MaxOf({ equity[j] : j \in 1..i })]

\* drawdown = (equity - peak) / peak, row by row, as a fraction num/den;
\* a zero peak makes the float division give nan (0/0) or -inf (x/0, x < 0)
Drawdown(equity) ==
    LET peak == Peak(equity)
    IN  [i \in 1..Len(equity) |-> [num |-> equity[i] - peak[i], den |-> peak[i]]]

\* the float a drawdown fraction with a zero peak stands for: -inf when x/0, x < 0
IsNegInf(d) == d.den = 0 /\ d.num < 0

\* round(drawdown.min() * 100, 2), in hundredths of a percent; min() skips nan,
\* and the result is [inf |-> "-inf"] or [nan |-> TRUE] when no number is the minimum
MaxDrawdownPct(equity) ==
    LET drawdown == Drawdown(equity)
        rows == 1..Len(equity)
        finite == { i \in rows : drawdown[i].den /= 0 }
    IN  IF \E i \in rows : IsNegInf(drawdown[i]) THEN [inf |-> "-inf"]
        ELSE IF finite = {} THEN [nan |-> TRUE]
        ELSE [pct |-> MinOf({ RoundHalfEven(drawdown[i].num * 100 * 100, drawdown[i].den)
                              : i \in finite })]

\* (pips > 0).mean() * 100, rounded to 1 decimal
WinRate(pips) == RoundHalfEven(Len(Positive(pips)) * 100 * 10, Len(pips))

(***************************************************************************)
(* Backtester.analyze_thresholds                                           *)
(***************************************************************************)
\* winning_pips / losing_pips of the sweep, rounded to 2 decimals
SweepProfitFactor(pips) ==
    LET winning_pips == IF Len(Positive(pips)) > 0 THEN SumSeq(Positive(pips)) ELSE 0
        losing_pips == IF Len(Negative(pips)) > 0 THEN Abs(SumSeq(Negative(pips))) ELSE 1
    IN  IF losing_pips > 0 THEN RoundHalfEven(winning_pips * 100, losing_pips) ELSE 0

\* the row is kept when the ledger exists and has more than 5 trades
KeepsRow(trades_df) == trades_df /= None /\ Len(trades_df.rows) > MIN_ROW_TRADES

AnalysisRow(threshold, trades_df) ==
    LET pips == Column(trades_df, "net_pips")
        profits == Column(trades_df, "trade_profit")
    IN  [ threshold        |-> threshold,
          trades           |-> Len(trades_df.rows),
          win_rate         |-> WinRate(pips),
          avg_pips         |-> RoundHalfEven(SumSeq(pips) * 10, Len(pips)),
          total_pips       |-> SumSeq(pips),
          total_profit     |-> SumSeq(profits),
          max_win_pips     |-> SeqMax(pips),
          max_loss_pips    |-> SeqMin(pips),
          profit_factor    |-> SweepProfitFactor(pips),
          max_drawdown_pct |-> MaxDrawdownPct(Column(trades_df, "equity")) ]

RECURSIVE Analysis(_, _, _)
Analysis(cot, price, k) ==
    IF k > Len(SweepThresholds) THEN <<>>
    ELSE LET threshold == SweepThresholds[k]
             trades_df == backtest_threshold(cot, price, threshold,
                                             DEFAULT_CAPITAL, DEFAULT_RISK_PCT)
         IN  (IF KeepsRow(trades_df) THEN << AnalysisRow(threshold, trades_df) >> ELSE <<>>)
             \o Analysis(cot, price, k + 1)

\* pd.DataFrame(analysis) if analysis else pd.DataFrame(): a table, empty or not
analyze_thresholds(cot, price) ==
    IF price = None \/ cot = None THEN DataFrame(<<>>) ELSE DataFrame(Analysis(cot, price, 1))

(***************************************************************************)
(* Backtester.get_strategy_stats                                           *)
(* The day numbers of the Backtester's tables count from 2000-01-01, as    *)
(* Timestamp does.  A mean of pct_return values is kept as                 *)
(* [mean_of |-> the fractions]: their common denominator is beyond the     *)
(* model's integers.  sharpe_ratio and avg_return_pct are not part of the  *)
(* dict modelled here; SharpeStats below adds sharpe_ratio.                *)
(***************************************************************************)
\* the calendar years the Backtester's day numbers can fall in
Years == 2000..2001

\* dt.to_period('M') of a day number: <<year, month>>
YearMonth(d) ==
    LET y == MaxOf({ yy \in Years : Timestamp(yy, 1, 1) <= d })
        m == MaxOf({ mm \in 1..12 : Timestamp(y, mm, 1) <= d })
    IN  <<y, m>>

\* mutant: a month's group reduced to its first trade
MonthTrades_First(rows, ym) ==
    LET first == MinOf({ i \in 1..Len(rows) : YearMonth(rows[i].entry_date) = ym })
    IN  << rows[first] >>

\* groupby('year_month'): the trades of one entry month, in ledger order
MonthTrades(rows, ym) == SelectSeq(rows, LAMBDA r : YearMonth(r.entry_date) = ym)

\* one record of monthly.to_dict('records')
MonthlyRecord(rows, ym) ==
    LET group == MonthTrades(rows, ym)
    IN  [ year_month   |-> ym,
          net_pips     |-> SumSeq([i \in 1..Len(group) |-> group[i].net_pips]),
          pct_return   |-> [mean_of |-> [i \in 1..Len(group) |-> group[i].pct_return]],
          trade_profit |-> SumSeq([i \in 1..Len(group) |-> group[i].trade_profit]) ]

\* the months of a set, oldest first
RECURSIVE MonthsAscending(_)
MonthsAscending(yms) ==
    IF yms = {} THEN <<>>
    ELSE LET first == CHOOSE a \in yms : \A b \in yms : a[1] * 12 + a[2] <= b[1] * 12 + b[2]
         IN  <<first>> \o MonthsAscending(yms \ {first})

\* the monthly breakdown: one record per entry month, in month order
Monthly(trades_df) ==
    LET rows == trades_df.rows
        months == MonthsAscending({ YearMonth(rows[i].entry_date) : i \in 1..Len(rows) })
    IN  [k \in 1..Len(months) |-> MonthlyRecord(rows, months[k])]

\* round(abs(sum of wins / sum of losses), 2) if the losses do not sum to 0 else 0
StatsProfitFactor(pips) ==
    IF SumSeq(Negative(pips)) /= 0
    THEN RoundHalfEven(Abs(SumSeq(Positive(pips))) * 100, Abs(SumSeq(Negative(pips))))
    ELSE 0

StatsDict(trades_df) ==
    LET pips == Column(trades_df, "net_pips")
        profits == Column(trades_df, "trade_profit")
        equity == Column(trades_df, "equity")
        wins == Positive(pips)
        losses == Negative(pips)
    IN  [ total_trades     |-> Len(trades_df.rows),
          winning_trades   |-> Len(wins),
          losing_trades    |-> Len(losses),
          win_rate         |-> WinRate(pips),
          avg_win_pips     |-> IF Len(wins) > 0
                               THEN RoundHalfEven(SumSeq(wins) * 10, Len(wins)) ELSE 0,
          avg_loss_pips    |-> IF Len(losses) > 0
                               THEN RoundHalfEven(Abs(SumSeq(losses)) * 10, Len(losses)) ELSE 0,
          total_pips       |-> SumSeq(pips),
          total_profit     |-> SumSeq(profits),
          max_win_pips     |-> SeqMax(pips),
          max_loss_pips    |-> SeqMin(pips),
          profit_factor    |-> StatsProfitFactor(pips),
          max_drawdown_pct |-> MaxDrawdownPct(equity),
          final_equity     |-> equity[Len(equity)],
          roi_pct          |-> RoundHalfEven((equity[Len(equity)] - STATS_CAPITAL) * 100 * 10,
                                             STATS_CAPITAL),
          monthly          |-> Monthly(trades_df) ]

get_strategy_stats(cot, price, threshold) ==
    LET trades_df == backtest_threshold(cot, price, threshold,
                                        DEFAULT_CAPITAL, DEFAULT_RISK_PCT)
    IN  IF trades_df = None THEN None ELSE StatsDict(trades_df)

(***************************************************************************)
(* Backtester.generate_report                                              *)
(* A dict is a record whose domain is the dict's keys.  Of data_overview   *)
(* the two row counts are modelled (the formatted ranges and the means are *)
(* not).                                                                   *)
(***************************************************************************)
MIN_BEST_TRADES == 10         \* valid_thresholds: trades >= 10

\* the bins and labels of pd.cut: bin k is (SignalBins[k], SignalBins[k + 1]]
SignalBins == <<-200000, -60000, -40000, -20000, 0, 20000, 40000, 200000>>

SignalLabels ==
    << "Extreme Short", "Strong Short", "Moderate Short", "Mild Short",
       "Mild Long", "Moderate Long", "Strong Long" >>

\* pd.cut of one value: the label of its bin, or nan outside every bin
SignalStrength(commercial_net) ==
    LET bins == { k \in 1..Len(SignalLabels) :
                    SignalBins[k] < commercial_net /\ commercial_net <= SignalBins[k + 1] }
    IN  IF bins = {} THEN [nan |-> TRUE]
        ELSE [label |-> SignalLabels[CHOOSE k \in bins : TRUE]]

\* mutant: the assignment zeroing the commercial_net column instead
WithSignalStrength_OverNet(cot) ==
    DataFrame([i \in 1..Len(cot.rows) |->
                  [commercial_net |-> 0] @@ cot.rows[i]])

\* self.cot_data['signal_strength'] = pd.cut(...): the held table with the column
\* added (or overwritten), every other column and the row order kept
WithSignalStrength(cot) ==
    DataFrame([i \in 1..Len(cot.rows) |->
                  [signal_strength |-> SignalStrength(cot.rows[i].commercial_net)]
                      @@ cot.rows[i]])

\* value_counts().sort_index().to_dict(): the number of rows per label
SignalDistribution(cot) ==
    [k \in 1..Len(SignalLabels) |->
        [label |-> SignalLabels[k],
         count |-> Len(SelectSeq(cot.rows,
                      LAMBDA r : SignalStrength(r.commercial_net)
                                     = [label |-> SignalLabels[k]]))]]

\* mutant: a table counts as missing only when it is None
NoData_NoneOnly(df) == df = None

\* df is None or len(df) == 0
NoData(df) == df = None \/ Len(df.rows) = 0

\* mutant: the best row taken among all the rows of the sweep
BestRow_AnyTrades(threshold_df) ==
    LET valid == 1..Len(threshold_df.rows)
    IN  IF valid = {} THEN 0
        ELSE MinOf({ i \in valid :
                       \A j \in valid : threshold_df.rows[j].profit_factor
                                            <= threshold_df.rows[i].profit_factor })

\* valid_thresholds['profit_factor'].idxmax(): the first row with the largest
\* profit_factor among the rows with trades >= 10 (0 when there is none)
BestRow(threshold_df) ==
    LET valid == { i \in 1..Len(threshold_df.rows) :
                     threshold_df.rows[i].trades >= MIN_BEST_TRADES }
    IN  IF valid = {} THEN 0
        ELSE MinOf({ i \in valid :
                       \A j \in valid : threshold_df.rows[j].profit_factor
                                            <= threshold_df.rows[i].profit_factor })

generate_report(cot, price) ==
    IF NoData(cot) THEN [error |-> "No COT data available"]
    ELSE IF NoData(price) THEN [error |-> "No price data available"]
    ELSE LET threshold_df == analyze_thresholds(cot, price)
             best_idx == BestRow(threshold_df)
             overview == [data_overview |-> [total_cot_weeks  |-> Len(cot.rows),
                                             total_price_days |-> Len(price.rows)]]
             analysis == IF Len(threshold_df.rows) > 0
                         THEN [threshold_analysis |-> threshold_df.rows] ELSE <<>>
             best == IF best_idx /= 0
                     THEN [best_threshold |-> threshold_df.rows[best_idx],
                           detailed_stats |->
                               get_strategy_stats(cot, price,
                                                  threshold_df.rows[best_idx].threshold)]
                     ELSE <<>>
         IN  overview @@ analysis @@ best
                 @@ [signal_distribution |-> SignalDistribution(cot)]

\* the table generate_report leaves in self.cot_data
CotAfterReport(cot, price) ==
    IF NoData(cot) \/ NoData(price) THEN cot ELSE WithSignalStrength(cot)

(***************************************************************************)
(* The state machine: one Backtester object and the calls made on it.      *)
(***************************************************************************)
\* the arguments the model passes to backtest_threshold and get_strategy_stats
Thresholds == {-50000, -10000}
Capitals == {5000, 10000}
RiskPcts == {0, 1}

Call(name, threshold, capital, risk_pct) ==
    [name |-> name, threshold |-> threshold, capital |-> capital, risk_pct |-> risk_pct]

\* Backtester(cot_data, price_data)
Init ==
    /\ cot_data \in CotTables \cup {None}
    /\ \E p \in PriceInputs \cup {None} : price_data = CopyAndSortPrices(p)
    /\ call = Call("__init__", None, None, None)
    /\ ret = None

\* set_price_data(p).  The model calls it on a Backtester built without price data
\* (Backtester(cot_data), then set_price_data); every pair of tables is also an
\* initial state, so no (cot_data, price_data) is lost by that.
SetPriceDataFrom(inputs) ==
    /\ price_data = None
    /\ \E p \in inputs :
          /\ price_data' = CopyAndSortPrices(p)
          /\ ret' = Bool(p /= None)
    /\ call' = Call("set_price_data", None, None, None)
    /\ UNCHANGED cot_data

SetPriceData == SetPriceDataFrom(PriceInputs \cup {None})

Align ==
    /\ call' = Call("align_cot_with_prices", None, None, None)
    /\ ret' = align_cot_with_prices(cot_data, price_data)
    /\ UNCHANGED <<cot_data, price_data>>

\* the argument lists of the model's backtest_threshold calls: the defaults, or one
\* argument given another value
OneOverride(threshold, capital, risk_pct) ==
    Cardinality({ a \in { <<"threshold", threshold = DEFAULT_THRESHOLD>>,
                          <<"capital", capital = DEFAULT_CAPITAL>>,
                          <<"risk_per_trade", risk_pct = DEFAULT_RISK_PCT>> } : ~ a[2] }) <= 1

BacktestThreshold ==
    \E threshold \in Thresholds, capital \in Capitals, risk_pct \in RiskPcts :
        /\ OneOverride(threshold, capital, risk_pct)
        /\ call' = Call("backtest_threshold", threshold, capital, risk_pct)
        /\ ret' = backtest_threshold(cot_data, price_data, threshold, capital, risk_pct)
        /\ UNCHANGED <<cot_data, price_data>>

AnalyzeThresholds ==
    /\ call' = Call("analyze_thresholds", None, None, None)
    /\ ret' = analyze_thresholds(cot_data, price_data)
    /\ UNCHANGED <<cot_data, price_data>>

GetStrategyStats ==
    \E threshold \in Thresholds :
        /\ call' = Call("get_strategy_stats", threshold, None, None)
        /\ ret' = get_strategy_stats(cot_data, price_data, threshold)
        /\ UNCHANGED <<cot_data, price_data>>

\* generate_report(): the report, and the signal_strength column it writes into
\* self.cot_data on the way
GenerateReport ==
    /\ call' = Call("generate_report", None, None, None)
    /\ ret' = generate_report(cot_data, price_data)
    /\ cot_data' = CotAfterReport(cot_data, price_data)
    /\ UNCHANGED price_data

Next ==
    \/ SetPriceData
    \/ Align
    \/ BacktestThreshold
    \/ AnalyzeThresholds
    \/ GetStrategyStats
    \/ GenerateReport

Spec == Init /\ [][Next]_vars

(***************************************************************************)
(* The same Backtester on tables long enough for the threshold sweep to    *)
(* keep rows: up to MaxSweepCot weekly reports, the first m of them deep   *)
(* below every threshold but -70000 and the others below -20000 only, over *)
(* one price point per week, the day after each report.                    *)
(***************************************************************************)
MaxSweepCot == 11

SweepCotTables ==
    UNION { { DataFrame([k \in 1..n |->
                            CotRow(CotDay(k), IF k <= m THEN -65000 ELSE -25000)])
              : m \in 0..n }
            : n \in 0..MaxSweepCot }

\* the weekly price moves, repeated in a cycle: +70 pips, -70 pips, +120 then -70
SweepSteps == { <<700>>, <<-700>>, <<1200, -700>> }

RECURSIVE SweepPrice(_, _)
SweepPrice(steps, j) ==
    IF j = 0 THEN 180000
    ELSE SweepPrice(steps, j - 1) + steps[((j - 1) % Len(steps)) + 1]

SweepPriceInputs ==
    { DataFrame([j \in 1..(MaxSweepCot + 1) |->
                    PriceRow(CotDay(j) + 1, SweepPrice(steps, j - 1))])
      : steps \in SweepSteps }

SweepInit ==
    /\ cot_data \in SweepCotTables
    /\ \E p \in SweepPriceInputs \cup {None} : price_data = CopyAndSortPrices(p)
    /\ call = Call("__init__", None, None, None)
    /\ ret = None

SweepSetPriceData == SetPriceDataFrom(SweepPriceInputs \cup {None})

SweepNext ==
    \/ SweepSetPriceData
    \/ Align
    \/ BacktestThreshold
    \/ AnalyzeThresholds
    \/ GetStrategyStats
    \/ GenerateReport

SweepSpec == SweepInit /\ [][SweepNext]_vars

(***************************************************************************)
(* The Backtester built on a COT table in any row order: the caller's      *)
(* table is copied as it comes (only the price table is sorted), and       *)
(* aligned and backtested.                                                 *)
(***************************************************************************)
\* the tables of CotTables with their rows in every order
OrderCotTables ==
    UNION { { DataFrame([k \in 1..Len(t.rows) |-> t.rows[perm[k]]])
              : perm \in Permutations(1..Len(t.rows)) }
            : t \in CotTables }

\* price tables with a point on every price day
FullPriceInputs == { p \in PriceInputs : Len(p.rows) = Cardinality(PriceDays) }

OrderInit ==
    /\ cot_data \in OrderCotTables
    /\ \E p \in FullPriceInputs : price_data = CopyAndSortPrices(p)
    /\ call = Call("__init__", None, None, None)
    /\ ret = None

OrderNext ==
    \/ Align
    \/ BacktestThreshold

OrderSpec == OrderInit /\ [][OrderNext]_vars

(***************************************************************************)
(* IEEE-754 double arithmetic, for the Sharpe ratio: the one statistic     *)
(* whose guard (returns.std() > 0) turns on the rounding of the floats.    *)
(* A natural number is a sequence of limbs, base 2^15, lowest first, the   *)
(* top limb non-zero (the empty sequence is 0).  A double is               *)
(* [sign, man, exp], the number sign * man * 2^exp with man a natural of   *)
(* exactly 53 bits; 0.0 is [sign |-> 1, man |-> <<>>, exp |-> 0].  Every   *)
(* operation rounds its exact result to the nearest double, a tie going to *)
(* the even mantissa.  Subnormals, infinities and NaN are not modelled:    *)
(* the model's prices keep every value far from them.                      *)
(***************************************************************************)
\* the base of the limbs: products of two limbs stay within TLC's integers
LimbBase == 2^15

\* the 52 stored bits of a double's mantissa and the implicit leading bit
MantissaBits == 52 + 1

\* the limbs of a whole number 0 <= n < 2^31
BFromInt(n) ==
    IF n = 0 THEN <<>>
    ELSE IF n < LimbBase THEN <<n>>
    ELSE IF n < LimbBase * LimbBase THEN <<n % LimbBase, n \div LimbBase>>
    ELSE <<n % LimbBase, (n \div LimbBase) % LimbBase, n \div (LimbBase * LimbBase)>>

\* a without its leading zero limbs
BTrim(a) == SubSeq(a, 1, MaxOf({0} \cup { i \in 1..Len(a) : a[i] /= 0 }))

\* limb i of a, 0 above its top
Limb(a, i) == IF i \in 1..Len(a) THEN a[i] ELSE 0

\* a + b: limb i takes a carry when some lower limb overflows and every limb between
\* is full
BAdd(a, b) ==
    LET n == (IF Len(a) > Len(b) THEN Len(a) ELSE Len(b)) + 1
        s == [i \in 1..n |-> Limb(a, i) + Limb(b, i)]
        carry == [i \in 1..n |->
                     IF \E j \in 1..(i - 1) :
                            s[j] >= LimbBase /\ \A m \in (j + 1)..(i - 1) : s[m] = LimbBase - 1
                     THEN 1 ELSE 0]
    IN  BTrim([i \in 1..n |-> (s[i] + carry[i]) % LimbBase])

\* a - b, for a >= b: limb i gives a borrow when some lower limb of a is below b's and
\* every limb between is equal
BSub(a, b) ==
    LET borrow == [i \in 1..Len(a) |->
                      IF \E j \in 1..(i - 1) :
                             Limb(a, j) < Limb(b, j)
                             /\ \A m \in (j + 1)..(i - 1) : Limb(a, m) = Limb(b, m)
                      THEN 1 ELSE 0]
    IN  BTrim([i \in 1..Len(a) |-> (a[i] - Limb(b, i) - borrow[i] + LimbBase) % LimbBase])

\* a < b, by the highest limb on which they differ
BLess(a, b) ==
    IF Len(a) /= Len(b) THEN Len(a) < Len(b)
    ELSE \E i \in 1..Len(a) : a[i] < b[i] /\ \A j \in (i + 1)..Len(a) : a[j] = b[j]

\* a * k, for 0 <= k <= 2^15: the low halves of the limb products plus their high
\* halves one limb up
BMulSmall(a, k) ==
    BAdd([i \in 1..Len(a) |-> (a[i] * k) % LimbBase],
         <<0>> \o [i \in 1..Len(a) |-> (a[i] * k) \div LimbBase])

\* the number of bits of a
BBitLen(a) ==
    IF a = <<>> THEN 0
    ELSE 15 * (Len(a) - 1) + MinOf({ k \in 1..15 : a[Len(a)] < 2^k })

\* bit i of a (bit 0 the lowest)
BBit(a, i) == (Limb(a, i \div 15 + 1) \div 2^(i % 15)) % 2

\* a * 2^k
BShl(a, k) ==
    IF a = <<>> THEN <<>>
    ELSE [i \in 1..(k \div 15) |-> 0] \o BMulSmall(a, 2^(k % 15))

\* floor(a / 2^k)
BShr(a, k) ==
    LET dropped == IF k \div 15 >= Len(a) THEN <<>> ELSE SubSeq(a, k \div 15 + 1, Len(a))
        s == k % 15
    IN  BTrim([i \in 1..Len(dropped) |->
                  dropped[i] \div 2^s + (Limb(dropped, i + 1) % 2^s) * 2^(15 - s)])

\* the largest q among qhat - 2, qhat - 1, qhat with d * q <= r
BDivCorrect(r, d, qhat) ==
    MaxOf({ q \in { qhat - 2, qhat - 1, qhat } : q >= 0 /\ ~ BLess(r, BMulSmall(d, q)) })

\* one digit of a long division: the largest q with d * q <= r, for r < d * 2^15 and
\* the top limb of d at least 2^14; the estimate from the top limbs is at most 2 over
BDivDigit(r, d) ==
    BDivCorrect(r, d, MinOf({ LimbBase - 1,
                              (Limb(r, Len(d) + 1) * LimbBase + Limb(r, Len(d)))
                                  \div d[Len(d)] }))

\* one step of the long division: the remainder so far takes the next limb of n
\* below it and gives one more digit
BDivStep(above, limb, d) ==
    IF above.r = <<>> /\ limb = 0 THEN [q |-> <<0>> \o above.q, r |-> <<>>]
    ELSE LET r == BTrim(<<limb>> \o above.r)
             q == BDivDigit(r, d)
         IN  [q |-> <<q>> \o above.q, r |-> BSub(r, BMulSmall(d, q))]

\* the quotient (untrimmed) and remainder of n / d over the limbs of n from limb i
\* upwards; the top Len(d) - 1 limbs of n are below d and yield no digit
RECURSIVE BDivFrom(_, _, _)
BDivFrom(n, d, i) ==
    IF i > Len(n) - Len(d) + 1 THEN [q |-> <<>>, r |-> BTrim(SubSeq(n, i, Len(n)))]
    ELSE BDivStep(BDivFrom(n, d, i + 1), n[i], d)

\* the quotient and remainder of n / d, d > 0: schoolbook long division, both numbers
\* first scaled by 2^s so that the top limb of the divisor is full
BDivMod(n, d) ==
    LET s == 15 * Len(d) - BBitLen(d)
        qr == BDivFrom(BShl(n, s), BShl(d, s), 1)
    IN  [q |-> BTrim(qr.q), r |-> BShr(qr.r, s)]

Float(sign, man, exp) == [sign |-> sign, man |-> man, exp |-> exp]

FZero == Float(1, <<>>, 0)

\* sign * man * 2^e for a mantissa that rounding up may have carried to one bit more
\* than MantissaBits (a power of two, halved exactly)
Normalized(sign, man, e) ==
    IF BBitLen(man) > MantissaBits THEN Float(sign, BShr(man, 1), e + 1)
    ELSE Float(sign, man, e)

\* round to nearest, ties to even: the kept bits go up by one when the dropped part
\* (rest, then a non-zero sticky remainder) is over half, or is exactly half and the
\* kept mantissa is odd
RoundKept(sign, kept, rest, half, sticky, e) ==
    Normalized(sign,
               IF \/ BLess(half, rest)
                  \/ rest = half /\ (sticky \/ BBit(kept, 0) = 1)
               THEN BAdd(kept, <<1>>) ELSE kept,
               e)

\* sign * q * 2^e rounded, dropping the t low bits of q (t >= 1)
RoundDropping(sign, q, sticky, t, e) ==
    RoundKept(sign, BShr(q, t), BSub(q, BShl(BShr(q, t), t)), BShl(<<1>>, t - 1),
              sticky, e + t)

\* sign * (qr.q + a fraction, zero iff qr.r is zero) * 2^e rounded to MantissaBits bits
RoundQuotient(sign, qr, e) ==
    IF qr.q = <<>> THEN FZero
    ELSE RoundDropping(sign, qr.q, qr.r /= <<>>, BBitLen(qr.q) - MantissaBits, e)

\* sign * (n / d) * 2^e rounded, the quotient taken on n * 2^k
RoundShifted(sign, n, d, e, k) ==
    RoundQuotient(sign,
                  IF d = <<1>> THEN [q |-> BShl(n, k), r |-> <<>>]
                  ELSE BDivMod(BShl(n, k), d),
                  e - k)

\* the double nearest to sign * (n / d) * 2^e, n and d naturals, d > 0: n is scaled
\* until the quotient has at least two bits more than a mantissa
RoundNearestEven(sign, n, d, e) ==
    IF n = <<>> THEN FZero
    ELSE RoundShifted(sign, n, d, e,
                      IF MantissaBits + 2 + BBitLen(d) > BBitLen(n)
                      THEN MantissaBits + 2 + BBitLen(d) - BBitLen(n) ELSE 0)

\* float(n / scale written in decimal): the double nearest to the decimal number
FromDecimal(n, scale) ==
    RoundNearestEven(IF n < 0 THEN -1 ELSE 1, BFromInt(IF n < 0 THEN -n ELSE n),
                     BFromInt(scale), 0)

FNeg(a) == Float(-a.sign, a.man, a.exp)

\* sa * x * 2^e + sb * y * 2^e
FAddAligned(sa, x, sb, y, e) ==
    IF sa = sb THEN RoundNearestEven(sa, BAdd(x, y), <<1>>, e)
    ELSE IF BLess(x, y) THEN RoundNearestEven(sb, BSub(y, x), <<1>>, e)
    ELSE RoundNearestEven(sa, BSub(x, y), <<1>>, e)

\* a + b: the mantissas brought to the lower exponent, added exactly, rounded once
FAdd(a, b) ==
    IF a.man = <<>> THEN b
    ELSE IF b.man = <<>> THEN a
    ELSE FAddAligned(a.sign, BShl(a.man, a.exp - MinOf({a.exp, b.exp})),
                     b.sign, BShl(b.man, b.exp - MinOf({a.exp, b.exp})),
                     MinOf({a.exp, b.exp}))

\* a - b
FSub(a, b) == FAdd(a, FNeg(b))

\* a / b, b not zero
FDiv(a, b) ==
    IF a.man = <<>> THEN FZero
    ELSE RoundNearestEven(a.sign * b.sign, a.man, b.man, a.exp - b.exp)

\* a * k and a / k for a whole number k, 0 < k < 2^15
FMulInt(a, k) ==
    IF a.man = <<>> THEN FZero
    ELSE RoundNearestEven(a.sign, BMulSmall(a.man, k), <<1>>, a.exp)

FDivInt(a, k) ==
    IF a.man = <<>> THEN FZero
    ELSE RoundNearestEven(a.sign, a.man, BFromInt(k), a.exp)

(***************************************************************************)
(* The Sharpe ratio of get_strategy_stats (backtester.py:398-403, 427).    *)
(* The price column holds doubles; pct_return and returns are computed     *)
(* from them in doubles, operation by operation, as the code does.         *)
(***************************************************************************)
\* the double held for a price of p / PriceScale
PriceFloat(p) == FromDecimal(p, PriceScale)

\* pct_return = (exit_price - entry_price) / entry_price * 100
PctReturn(entry_price, exit_price) ==
    FMulInt(FDiv(FSub(PriceFloat(exit_price), PriceFloat(entry_price)),
                 PriceFloat(entry_price)), 100)

\* returns = trades_df['pct_return'] / 100, one double per row of the ledger
RECURSIVE Returns(_)
Returns(rows) ==
    IF rows = <<>> THEN <<>>
    ELSE <<FDivInt(PctReturn(Head(rows).entry_price, Head(rows).exit_price), 100)>>
         \o Returns(Tail(rows))

\* the sum of the first n values, added in index order (the order of the reduction
\* for fewer than 8 values)
RECURSIVE FSum(_, _)
FSum(xs, n) == IF n = 0 THEN FZero ELSE FAdd(FSum(xs, n - 1), xs[n])

\* returns.mean(): the sum over the count
Mean(xs) == FDivInt(FSum(xs, Len(xs)), Len(xs))

\* some deviation avg - x is not zero
DeviatesFrom(avg, xs) == \E i \in 1..Len(xs) : FSub(avg, xs[i]) /= FZero

\* returns.std() > 0.  The sample variance is the sum of the squares (avg - x)^2 over
\* n - 1, avg the mean above: it is positive exactly when some deviation is not zero
\* (the deviations of the model are far above the square root of the smallest double,
\* so no square underflows to 0).
StdPositive(xs) == DeviatesFrom(Mean(xs), xs)

\* the quotient (returns.mean() / returns.std()) * sqrt(52): 0 when the mean is 0,
\* left uncomputed otherwise, as [mean, std_of]: a non-zero number
SharpeQuotient(mean, returns) ==
    IF mean = FZero THEN FZero ELSE [mean |-> mean, std_of |-> returns]

\* sharpe for the series of returns: 0 unless there are two returns or more and their
\* std() is positive
SharpeOf(returns) ==
    IF Len(returns) > 1 /\ StdPositive(returns)
    THEN SharpeQuotient(Mean(returns), returns)
    ELSE FZero

Sharpe(trades_df) == SharpeOf(Returns(trades_df.rows))

\* get_strategy_stats with its sharpe_ratio
SharpeStats(cot, price, threshold) ==
    LET trades_df == backtest_threshold(cot, price, threshold,
                                        DEFAULT_CAPITAL, DEFAULT_RISK_PCT)
    IN  IF trades_df = None THEN None
        ELSE StatsDict(trades_df) @@ [sharpe_ratio |-> Sharpe(trades_df)]

(***************************************************************************)
(* The Backtester asked for its statistics, Sharpe ratio included, on      *)
(* weekly tables: up to MaxSharpeCot reports, the first m of them below    *)
(* both thresholds and the others below -10000 only; a price the day after *)
(* each report, always 18.0000, and a price a week after each report.      *)
(* Every trade enters at 18.0000 and leaves at its week's exit price.      *)
(***************************************************************************)
MaxSharpeCot == 5

SharpeCotTables ==
    UNION { { DataFrame([k \in 1..n |->
                            CotRow(CotDay(k), IF k <= m THEN -60000 ELSE -20000)])
              : m \in 0..n }
            : n \in 1..MaxSharpeCot }

\* the weekly exit prices, repeated in a cycle: 18.000 (no move), 18.070, 18.120, and
\* mixes of them
SharpeExits ==
    { <<180000>>, <<180700>>, <<181200>>, <<180700, 181200>>, <<181200, 181200, 180000>> }

SharpePriceInputs ==
    { DataFrame([j \in 1..(2 * (MaxSharpeCot - 1)) |->
                    IF j % 2 = 1 THEN PriceRow(CotDay((j + 1) \div 2) + 1, 180000)
                    ELSE PriceRow(CotDay(j \div 2 + 1),
                                  exits[((j \div 2 - 1) % Len(exits)) + 1])])
      : exits \in SharpeExits }

SharpeInit ==
    /\ cot_data \in SharpeCotTables
    /\ \E p \in SharpePriceInputs : price_data = CopyAndSortPrices(p)
    /\ call = Call("__init__", None, None, None)
    /\ ret = None

SharpeGetStrategyStats ==
    \E threshold \in Thresholds :
        /\ call' = Call("get_strategy_stats", threshold, None, None)
        /\ ret' = SharpeStats(cot_data, price_data, threshold)
        /\ UNCHANGED <<cot_data, price_data>>

SharpeNext == SharpeGetStrategyStats

SharpeSpec == SharpeInit /\ [][SharpeNext]_vars

(***************************************************************************)
(* DataEngine.load_cot_data (src/data_engine.py).                          *)
(* In LoadSpec the object is a DataEngine: cot_data and price_data are its *)
(* attributes, call is [name, data_paths], ret the returned bool.          *)
(* A path stands for the CSV file behind it: [unreadable |-> TRUE] when    *)
(* pd.read_csv raises, else [date_column, has_market, has_positions, rows],*)
(* a row being [date, market, long, short] with the date as the file       *)
(* writes it: [mdy |-> <<MM, DD, YYYY>>] under Report_Date_as_MM_DD_YYYY,   *)
(* [yymmdd |-> n], n the number YYMMDD, under As_of_Date_In_Form_YYMMDD.   *)
(* A parsed date is the day number counted from 2000-01-01.                *)
(***************************************************************************)
MaxPaths == 2        \* data_paths lists at most MaxPaths files

\* pd.to_datetime of one MM/DD/YYYY cell
ParseMMDDYYYY(cell) == Timestamp(cell.mdy[3], cell.mdy[1], cell.mdy[2])

\* pd.to_datetime(format='%y%m%d') of one YYMMDD cell (%y below 69 is 20yy)
ParseYYMMDD(cell) ==
    LET yy == cell.yymmdd \div 10000
    IN  Timestamp((IF yy < 69 THEN 2000 ELSE 1900) + yy,
                  (cell.yymmdd \div 100) % 100, cell.yymmdd % 100)

\* ~str.contains('MICRO'): the market names of the model that contain it
MicroMarkets == { "MICRO GOLD - COMMODITY EXCHANGE INC." }

Skipped == [skipped |-> TRUE]

\* the two date columns load_cot_data recognises
DateColumns == { "Report_Date_as_MM_DD_YYYY", "As_of_Date_In_Form_YYMMDD" }

\* df['cot_date'] of a file that has one of the date columns
CotDate(file, row) ==
    IF file.date_column = "Report_Date_as_MM_DD_YYYY" THEN ParseMMDDYYYY(row.date)
    ELSE ParseYYMMDD(row.date)

\* mutant: commercial_net taken as the long side alone
CommercialNet_LongOnly(commercial_long, commercial_short) == commercial_long

\* df['commercial_net'] = df['commercial_long'] - df['commercial_short']
CommercialNet(commercial_long, commercial_short) == commercial_long - commercial_short

\* one row of the frame a file contributes
LoadedRow(file, row) ==
    LET commercial_long == IF file.has_positions THEN row.long ELSE 0
        commercial_short == IF file.has_positions THEN row.short ELSE 0
    IN  [ cot_date         |-> CotDate(file, row),
          commercial_long  |-> commercial_long,
          commercial_short |-> commercial_short,
          commercial_net   |-> CommercialNet(commercial_long, commercial_short) ]

\* the body of the try block for one path: the frame appended to dfs, or Skipped
\* when it raises (read_csv fails, or cot_date is missing from the column selection)
LoadFile(file) ==
    IF "unreadable" \in DOMAIN file THEN Skipped
    ELSE IF file.date_column \notin DateColumns THEN Skipped
    ELSE LET kept == IF file.has_market
                     THEN SelectSeq(file.rows, LAMBDA r : r.market \notin MicroMarkets)
                     ELSE file.rows
         IN  DataFrame([i \in 1..Len(kept) |-> LoadedRow(file, kept[i])])

\* dfs after the loop over data_paths
RECURSIVE LoadedFrames(_)
LoadedFrames(data_paths) ==
    IF data_paths = <<>> THEN <<>>
    ELSE LET df == LoadFile(Head(data_paths))
         IN  (IF df = Skipped THEN <<>> ELSE <<df>>) \o LoadedFrames(Tail(data_paths))

\* pd.concat(dfs, ignore_index=True)
RECURSIVE Concat(_)
Concat(dfs) == IF dfs = <<>> THEN <<>> ELSE Head(dfs).rows \o Concat(Tail(dfs))

\* mutant: the concatenated rows left in file order
SortByCotDate_Unsorted(t) == t

\* sort_values('cot_date'); rows with one date stay in concat order (on frames this
\* short numpy's quicksort is an insertion sort)
RECURSIVE SortByCotDate(_)
SortByCotDate(t) ==
    IF t = <<>> THEN <<>>
    ELSE LET m == MinOf({ t[i].cot_date : i \in 1..Len(t) })
             k == MinOf({ i \in 1..Len(t) : t[i].cot_date = m })
             rest == [i \in 1..(Len(t) - 1) |-> IF i < k THEN t[i] ELSE t[i + 1]]
         IN  <<t[k]>> \o SortByCotDate(rest)

\* drop_duplicates('cot_date'): the first row of every date is kept
RECURSIVE DropDuplicates(_)
DropDuplicates(t) ==
    IF t = <<>> THEN <<>>
    ELSE LET last == t[Len(t)]
             front == SubSeq(t, 1, Len(t) - 1)
         IN  DropDuplicates(front)
                 \o (IF \E i \in 1..Len(front) : front[i].cot_date = last.cot_date
                     THEN <<>> ELSE <<last>>)

\* the cot_data a load with a non-empty dfs stores
LoadedCotData(dfs) == DataFrame(DropDuplicates(SortByCotDate(Concat(dfs))))

(***************************************************************************)
(* The files of the model: three report dates, written in either date      *)
(* format, with and without the market and position columns.               *)
(***************************************************************************)
CsvFile(date_column, has_market, has_positions, rows) ==
    [date_column |-> date_column, has_market |-> has_market,
     has_positions |-> has_positions, rows |-> rows]

CsvRow(date, market, long, short) ==
    [date |-> date, market |-> market, long |-> long, short |-> short]

Gold == "GOLD - COMMODITY EXCHANGE INC."
Micro == "MICRO GOLD - COMMODITY EXCHANGE INC."

CotFiles ==
    { \* two reports, newest first
      CsvFile("Report_Date_as_MM_DD_YYYY", TRUE, TRUE,
              << CsvRow([mdy |-> <<3, 5, 2024>>], Gold, 10000, 70000),
                 CsvRow([mdy |-> <<1, 2, 2024>>], Gold, 20000, 30000) >>),
      \* the other format: one report of the file above restated, and one more
      CsvFile("As_of_Date_In_Form_YYMMDD", TRUE, TRUE,
              << CsvRow([yymmdd |-> 240102], Gold, 50000, 20000),
                 CsvRow([yymmdd |-> 240109], Gold, 15000, 65000) >>),
      \* a MICRO row and a regular row of one date
      CsvFile("Report_Date_as_MM_DD_YYYY", TRUE, TRUE,
              << CsvRow([mdy |-> <<1, 9, 2024>>], Micro, 100, 900),
                 CsvRow([mdy |-> <<1, 9, 2024>>], Gold, 30000, 30000) >>),
      \* MICRO rows only
      CsvFile("As_of_Date_In_Form_YYMMDD", TRUE, TRUE,
              << CsvRow([yymmdd |-> 240102], Micro, 100, 900) >>),
      \* a header and no row
      CsvFile("Report_Date_as_MM_DD_YYYY", TRUE, TRUE, <<>>),
      \* no market column and no position columns
      CsvFile("As_of_Date_In_Form_YYMMDD", FALSE, FALSE,
              << CsvRow([yymmdd |-> 240305], Gold, 0, 0) >>),
      \* neither date column
      CsvFile("none", TRUE, TRUE,
              << CsvRow([mdy |-> <<1, 2, 2024>>], Gold, 40000, 10000) >>),
      \* a path pd.read_csv cannot read
      [unreadable |-> TRUE] }

RECURSIVE PathLists(_)
PathLists(n) ==
    IF n = 0 THEN { <<>> }
    ELSE PathLists(n - 1) \cup
         { Append(ps, f) : ps \in { q \in PathLists(n - 1) : Len(q) = n - 1 }, f \in CotFiles }

\* DataEngine()
LoadInit ==
    /\ cot_data = None
    /\ price_data = None
    /\ call = [name |-> "__init__"]
    /\ ret = None

\* load_cot_data(data_paths), data_paths one of `lists`
LoadCotDataFrom(lists) ==
    \E data_paths \in lists :
        LET dfs == LoadedFrames(data_paths)
        IN  /\ call' = [name |-> "load_cot_data", data_paths |-> data_paths]
            /\ IF dfs /= <<>>
               THEN cot_data' = LoadedCotData(dfs) /\ ret' = Bool(TRUE)
               ELSE cot_data' = cot_data /\ ret' = Bool(FALSE)
            /\ UNCHANGED price_data

LoadCotData == LoadCotDataFrom(PathLists(MaxPaths))

LoadNext == LoadCotData

LoadSpec == LoadInit /\ [][LoadNext]_vars

(***************************************************************************)
(* DataEngine.load_price_data and merge_data (src/data_engine.py).         *)
(* The price table of a DataEngine is indexed by date and holds daily bars *)
(* [date, open, high, low, close] in ascending date order (the columns     *)
(* 'adj close' and 'volume' are read by nothing and left out).             *)
(* merge_data stores its table in self.merged_data and returns a bool: in  *)
(* MergeSpec ret is [value, merged_data], the returned bool together with  *)
(* the merged_data attribute as the call leaves it (None until a merge     *)
(* succeeds: both tables, once loaded, are never None again).              *)
(***************************************************************************)
TRADE_START_DAYS == 3         \* trade_start = cot_date + timedelta(days=3)
TRADE_END_DAYS == 5           \* trade_end = trade_start + timedelta(days=5)
PIP_MULTIPLIER_DE == 10000    \* pips_change = (exit_price - entry_price) * 10000

Bar(d, o, h, l, c) == [date |-> d, open |-> o, high |-> h, low |-> l, close |-> c]

\* the days of the model's downloads: 2024-01-05 and 2024-01-08 (the first day of,
\* and a day inside, the trade week of the 2024-01-02 report), 2024-01-11 (in no
\* trade week) and 2024-01-17 (the last day of the week of the 2024-01-09 report)
DownloadDays ==
    { Timestamp(2024, 1, 5), Timestamp(2024, 1, 8), Timestamp(2024, 1, 11),
      Timestamp(2024, 1, 17) }

\* a day's bar: up from 18.0000 to 18.0700, or down from 18.0700 to 18.0000
DayBar(d, up) ==
    IF up THEN Bar(d, 180000, 181000, 179500, 180700)
    ELSE Bar(d, 180700, 180900, 179900, 180000)

\* what yf.download returns: bars on any of the days, oldest first
DownloadedPrices ==
    UNION { { DataFrame(RowsAscending(D, [d \in D |-> DayBar(d, up[d])])) : up \in [D -> BOOLEAN] }
            : D \in SUBSET DownloadDays }

DownloadFailed == [failed |-> TRUE]

\* _create_sample_price_data: one bar per calendar day, open = close = the walk's
\* price.  The walk's steps are draws of a seeded generator; the model puts a fixed
\* walk of 20-pip steps in their place, and keeps the days from 2024-01-01 to
\* 2024-03-15 (every trade week of the model's reports lies within them).
SampleDays == Timestamp(2024, 1, 1)..Timestamp(2024, 3, 15)

SamplePrice(d) == 170000 + 20 * (((d % 5) * 3) % 5)

SamplePriceData ==
    DataFrame(RowsAscending(SampleDays,
        [d \in SampleDays |->
            Bar(d, SamplePrice(d), SamplePrice(d) + 10, SamplePrice(d) - 10, SamplePrice(d))]))

\* self.price_data.loc[trade_start:trade_end]: the bars of the days from trade_start
\* to trade_end, both included
WeekPrices(price, trade_start, trade_end) ==
    SelectSeq(price.rows, LAMBDA p : trade_start <= p.date /\ p.date <= trade_end)

\* pips_change = (exit_price - entry_price) * 10000, prices in 1/PriceScale units
MergePips(entry_price, exit_price) ==
    ((exit_price - entry_price) * PIP_MULTIPLIER_DE) \div PriceScale

\* the dict appended for a report whose trade week has bars
MergedRecord(cot_row, trade_start, trade_end, week_prices) ==
    LET entry_price == week_prices[1].open
        exit_price == week_prices[Len(week_prices)].close
    IN  [ cot_date       |-> cot_row.cot_date,
          commercial_net |-> cot_row.commercial_net,
          entry_date     |-> trade_start,
          entry_price    |-> entry_price,
          exit_date      |-> trade_end,
          exit_price     |-> exit_price,
          week_high      |-> MaxOf({ week_prices[i].high : i \in 1..Len(week_prices) }),
          week_low       |-> MinOf({ week_prices[i].low : i \in 1..Len(week_prices) }),
          pips_change    |-> MergePips(entry_price, exit_price),
          percent_change |-> [num |-> (exit_price - entry_price) * 100, den |-> entry_price] ]

\* one pass of the loop over cot_data.iterrows(): the records a report appends
MergeRow(cot_row, price) ==
    LET trade_start == cot_row.cot_date + TRADE_START_DAYS
        trade_end == trade_start + TRADE_END_DAYS
        week_prices == WeekPrices(price, trade_start, trade_end)
    IN  IF Len(week_prices) > 0
        THEN << MergedRecord(cot_row, trade_start, trade_end, week_prices) >>
        ELSE <<>>

RECURSIVE MergedResults(_, _)
MergedResults(cot_rows, price) ==
    IF cot_rows = <<>> THEN <<>>
    ELSE MergeRow(Head(cot_rows), price) \o MergedResults(Tail(cot_rows), price)

\* merge_data(): [value, merged_data]
merge_data(cot, price) ==
    IF cot = None \/ price = None
    THEN [value |-> FALSE, merged_data |-> None]
    ELSE [value |-> TRUE, merged_data |-> DataFrame(MergedResults(cot.rows, price))]

\* the path lists of MergeSpec: up to two files that have a date column and the
\* position columns
MergePathLists ==
    { ps \in PathLists(2) :
          \A i \in 1..Len(ps) :
              /\ "unreadable" \notin DOMAIN ps[i]
              /\ ps[i].date_column \in DateColumns
              /\ ps[i].has_positions }

MergeLoadCotData == LoadCotDataFrom(MergePathLists)

\* load_price_data(): the downloaded table, or the sample table when the download
\* (or the renaming of its columns) raises; True either way
LoadPriceData ==
    /\ \E download \in DownloadedPrices \cup {DownloadFailed} :
           price_data' = IF download = DownloadFailed THEN SamplePriceData ELSE download
    /\ call' = [name |-> "load_price_data"]
    /\ ret' = Bool(TRUE)
    /\ UNCHANGED cot_data

MergeData ==
    /\ call' = [name |-> "merge_data"]
    /\ ret' = merge_data(cot_data, price_data)
    /\ UNCHANGED <<cot_data, price_data>>

MergeNext ==
    \/ MergeLoadCotData
    \/ LoadPriceData
    \/ MergeData

MergeSpec == LoadInit /\ [][MergeNext]_vars

(***************************************************************************)
(* The pip scales of src/config.py and of TradeCalculator                  *)
(* (src/utils/trade_calculator.py).                                        *)
(***************************************************************************)
PIP_MULTIPLIER == 10000       \* config.PIP_MULTIPLIER
PIP_MULTIPLIER_TC == 10000    \* risk_pips = (entry_price - stop_loss) * 10000

\* calculate_position_size / calculate_take_profit: the pips between the entry and
\* the stop, taken positive (int() of a whole number of pips leaves it as it is)
RiskPips(entry_price, stop_loss, direction) ==
    LET risk_pips == IF direction = "BUY"
                     THEN ((entry_price - stop_loss) * PIP_MULTIPLIER_TC) \div PriceScale
                     ELSE ((stop_loss - entry_price) * PIP_MULTIPLIER_TC) \div PriceScale
    IN  IF risk_pips < 0 THEN -risk_pips ELSE risk_pips

(***************************************************************************)
(* Backtester.load_price_data_from_file and _manual_csv_parse.             *)
(* A path stands for the file behind it: [unreadable |-> TRUE] when open() *)
(* raises, else [header, extra_fields, rows]: header is FALSE for an empty *)
(* file, extra_fields is TRUE when some line has more fields than the      *)
(* header (pd.read_csv then raises under both engines and the manual       *)
(* parser takes over).  The header names a date and a price column.  A row *)
(* is [date, price] as written: a date cell is [dmy |-> <<DD, MM, YYYY>>]  *)
(* or a text that is no date, a price cell is [int, frac] (the digits      *)
(* before the point and the four after it) or a text that is no number.    *)
(***************************************************************************)
MaxPriceRows == 2    \* price files have at most MaxPriceRows data rows

NaT == [nat |-> TRUE]

NaN == [nan |-> TRUE]

\* pd.to_datetime(cell, dayfirst=True, errors='coerce')
ParseDate(cell) ==
    IF "dmy" \in DOMAIN cell
    THEN [ts |-> Timestamp(cell.dmy[3], cell.dmy[2], cell.dmy[1])]
    ELSE NaT

\* pd.to_numeric(cell, errors='coerce') / float(price_str)
ParsePrice(cell) ==
    IF "int" \in DOMAIN cell THEN [value |-> cell.int * PriceScale + cell.frac] ELSE NaN

\* a row of the file with both cells parsed
ParsedRow(row) == [date |-> ParseDate(row.date), price |-> ParsePrice(row.price)]

\* dropna(subset=['date', 'price'])
DropNa(rows) == SelectSeq(rows, LAMBDA r : r.date /= NaT /\ r.price /= NaN)

\* the rows as price points
PricePointsOf(rows) == [i \in 1..Len(rows) |-> PriceRow(rows[i].date.ts, rows[i].price.value)]

\* _manual_csv_parse: the rows whose date and price both parse, or None without one
manual_csv_parse(file) ==
    LET parsed == [i \in 1..Len(file.rows) |-> ParsedRow(file.rows[i])]
        kept == DropNa(parsed)
    IN  IF kept = <<>> THEN None ELSE DataFrame(kept)

\* methods 1 to 3: the frame read, its cells still to parse after pd.read_csv and
\* already parsed after the manual parser
ReadPriceFile(file) ==
    IF file.header /\ ~ file.extra_fields
    THEN DataFrame([i \in 1..Len(file.rows) |-> ParsedRow(file.rows[i])])
    ELSE manual_csv_parse(file)

load_price_data_from_file(file) ==
    IF "unreadable" \in DOMAIN file THEN None
    ELSE LET price_df == ReadPriceFile(file)
         IN  IF price_df = None THEN None
             ELSE IF Len(price_df.rows) = 0 THEN None
             ELSE DataFrame(SortByDate(PricePointsOf(DropNa(price_df.rows))))

\* the cells of the model's price files: 02/01/2024 and 09/01/2024, 18.0000 and 18.0700
DateCells == { [dmy |-> <<2, 1, 2024>>], [dmy |-> <<9, 1, 2024>>], [text |-> "Date"] }

PriceCells == { [int |-> 18, frac |-> 0], [int |-> 18, frac |-> 700], [text |-> "-"] }

PriceFileRows == { [date |-> d, price |-> p] : d \in DateCells, p \in PriceCells }

RECURSIVE RowLists(_)
RowLists(n) ==
    IF n = 0 THEN { <<>> }
    ELSE RowLists(n - 1) \cup
         { Append(rs, r) : rs \in { q \in RowLists(n - 1) : Len(q) = n - 1 },
                           r \in PriceFileRows }

PriceFiles ==
    { [header |-> TRUE, extra_fields |-> x, rows |-> rs] :
          x \in BOOLEAN, rs \in RowLists(MaxPriceRows) }
    \cup { [header |-> FALSE, extra_fields |-> FALSE, rows |-> <<>>],
           [unreadable |-> TRUE] }

\* Backtester(None), as the price-loading tab builds it
PriceInit ==
    /\ cot_data = None
    /\ price_data = None
    /\ call = Call("__init__", None, None, None)
    /\ ret = None

\* load_price_data_from_file(filepath): the table is returned, not stored
LoadPriceDataFromFile ==
    \E file \in PriceFiles :
        /\ call' = [name |-> "load_price_data_from_file", filepath |-> file]
        /\ ret' = load_price_data_from_file(file)
        /\ UNCHANGED <<cot_data, price_data>>

PriceNext == LoadPriceDataFromFile

PriceSpec == PriceInit /\ [][PriceNext]_vars

(***************************************************************************)
(* Properties of align_cot_with_prices.                                    *)
(***************************************************************************)
\* the price points and COT reports the Backtester holds
PricePoints ==
    IF price_data = None THEN {} ELSE { price_data.rows[i] : i \in 1..Len(price_data.rows) }

CotReports ==
    IF cot_data = None THEN {} ELSE { cot_data.rows[i] : i \in 1..Len(cot_data.rows) }

\* the price points a report can enter on / exit on
EntryPoints(cot_date) == { p \in PricePoints : p.date > cot_date }

ExitPoints(cot_date) == { p \in PricePoints : p.date >= cot_date + 7 }

AlignReturned == call.name = "align_cot_with_prices"

\* the records the last align_cot_with_prices call emitted (none when it returned None)
Emitted == IF AlignReturned /\ ret /= None THEN { ret.rows[i] : i \in 1..Len(ret.rows) } ELSE {}

EmittedCount == IF AlignReturned /\ ret /= None THEN Len(ret.rows) ELSE 0

\* C1: for every record emitted by align_cot_with_prices, entry_date is the date of
\* the earliest price point strictly after the record's cot_date, and entry_price is
\* that price point's price.
C1_EntryIsFirstPriceAfterCot ==
    \A r \in Emitted :
        /\ EntryPoints(r.cot_date) /= {}
        /\ r.entry_date = MinOf({ p.date : p \in EntryPoints(r.cot_date) })
        /\ PriceRow(r.entry_date, r.entry_price) \in PricePoints

\* C1 witness: a record whose report has a price point on its own day (not an entry)
\* and a record whose report has several later price points to choose from
C1_Witness ==
    /\ \E r \in Emitted : \E p \in PricePoints : p.date = r.cot_date
    /\ \E r \in Emitted : Cardinality(EntryPoints(r.cot_date)) >= 2

\* C2: for every record emitted, exit_date is the date of the earliest price point on
\* or after cot_date + 7 days and exit_price is that point's price; a report with no
\* such price point emits no record.
C2_ExitIsFirstPriceOnOrAfterTarget ==
    AlignReturned =>
        /\ \A r \in Emitted :
              /\ ExitPoints(r.cot_date) /= {}
              /\ r.exit_date = MinOf({ p.date : p \in ExitPoints(r.cot_date) })
              /\ PriceRow(r.exit_date, r.exit_price) \in PricePoints
        /\ \A c \in CotReports :
              ExitPoints(c.cot_date) = {} => ~ \E r \in Emitted : r.cot_date = c.cot_date

\* C2 witness: a record that exits exactly on its target day, past a price point
\* before the target; a record that exits later than its target; and a report with
\* no exit point, which is not among the records
C2_Witness ==
    /\ \E r \in Emitted :
          /\ r.exit_date = r.cot_date + 7
          /\ \E p \in PricePoints : r.cot_date < p.date /\ p.date < r.cot_date + 7
    /\ \E r \in Emitted : r.exit_date > r.cot_date + 7
    /\ \E c \in CotReports : ExitPoints(c.cot_date) = {}

\* C3: the number of records align_cot_with_prices emits is at most the number of COT
\* reports, and equals it only when every report has both an entry price point and a
\* qualifying exit price point.
C3_CoverageBound ==
    (AlignReturned /\ cot_data /= None) =>
        /\ EmittedCount <= Len(cot_data.rows)
        /\ EmittedCount = Len(cot_data.rows) =>
              \A c \in CotReports :
                  EntryPoints(c.cot_date) /= {} /\ ExitPoints(c.cot_date) /= {}

\* C3 witness: records are emitted, fewer than there are reports, one of the reports
\* left out having no exit price point
C3_Witness ==
    /\ EmittedCount >= 2
    /\ EmittedCount < Len(cot_data.rows)
    /\ \E c \in CotReports : ExitPoints(c.cot_date) = {}

\* C26: for every record emitted by align_cot_with_prices over the date-sorted price
\* table, cot_date < entry_date <= exit_date and exit_date >= cot_date + 7 days; the
\* holding period exit_date - entry_date is never negative, and it is zero when no
\* price point lies between cot_date and cot_date + 7 days.
C26_DatesOrdered ==
    \A r \in Emitted :
        /\ r.cot_date < r.entry_date
        /\ r.entry_date <= r.exit_date
        /\ r.exit_date >= r.cot_date + 7
        /\ r.exit_date - r.entry_date >= 0
        /\ (~ \E p \in PricePoints : r.cot_date < p.date /\ p.date < r.cot_date + 7)
               => r.exit_date - r.entry_date = 0

\* C26 witness: two records, one held for six days, the other entered and left on
\* the same price point, there being none within the week after its report
C26_Witness ==
    /\ \E r \in Emitted : r.exit_date - r.entry_date = 6
    /\ \E r \in Emitted :
           /\ r.exit_date = r.entry_date
           /\ r.entry_date > r.cot_date + 7

\* the report in the last position of the held COT table
LastCotRow == cot_data.rows[Len(cot_data.rows)]

\* C27: align_cot_with_prices never emits a record for the COT row in the last
\* position of its table, even when the price series has both an entry and an exit
\* point for it; the record count is at most (number of COT rows - 1), and a one-row
\* COT table always yields None.
C27_LastRowNeverAligned ==
    (AlignReturned /\ cot_data /= None /\ Len(cot_data.rows) >= 1) =>
        /\ \A r \in Emitted : r.cot_date /= LastCotRow.cot_date
        /\ EmittedCount <= Len(cot_data.rows) - 1
        /\ Len(cot_data.rows) = 1 => ret = None

\* C27 witness: a two-row table whose last report has an entry and an exit point in
\* the price series, and one record, for the first report
C27_Witness ==
    /\ AlignReturned
    /\ cot_data /= None
    /\ Len(cot_data.rows) = 2
    /\ EntryPoints(LastCotRow.cot_date) /= {}
    /\ ExitPoints(LastCotRow.cot_date) /= {}
    /\ EmittedCount = 1

(***************************************************************************)
(* Properties of backtest_threshold.                                       *)
(***************************************************************************)
BacktestReturned == call.name = "backtest_threshold"

\* the rows of a returned table (none when the call returned None)
RowsOf(df) == IF df = None THEN <<>> ELSE df.rows

\* the reports (by cot_date) a ledger trades
TradedDates(df) == { RowsOf(df)[i].cot_date : i \in 1..Len(RowsOf(df)) }

\* the aligned records the Backtester's tables give
AlignedNow == RowsOf(align_cot_with_prices(cot_data, price_data))

AlignedNets == [i \in 1..Len(AlignedNow) |-> AlignedNow[i].commercial_net]

\* C4: backtest_threshold(threshold) selects an aligned record if and only if its
\* commercial_net is strictly less than threshold (a record whose commercial_net equals
\* the threshold is not traded); with commercial_net -60000 and -10000 and threshold
\* -50000 only the first is traded.
C4_SelectsStrictlyBelowThreshold ==
    BacktestReturned =>
        /\ TradedDates(ret) =
              { AlignedNow[i].cot_date : i \in { j \in 1..Len(AlignedNow) :
                                                  AlignedNow[j].commercial_net < call.threshold } }
        /\ \A i \in 1..Len(RowsOf(ret)) : RowsOf(ret)[i].commercial_net < call.threshold
        /\ (AlignedNets = <<-60000, -10000>> /\ call.threshold = -50000) =>
              /\ Len(RowsOf(ret)) = 1
              /\ RowsOf(ret)[1].commercial_net = -60000
              /\ RowsOf(ret)[1].cot_date = AlignedNow[1].cot_date

\* C4 witness: the ledger holds the record below the threshold and leaves out an
\* aligned record whose commercial_net equals the threshold
C4_Witness ==
    /\ BacktestReturned
    /\ ret /= None
    /\ \E i \in 1..Len(AlignedNow) :
          /\ AlignedNow[i].commercial_net = call.threshold
          /\ AlignedNow[i].cot_date \notin TradedDates(ret)

\* the thresholds the selections are compared at: the model's, the sweep's, and 0
ComparedThresholds ==
    Thresholds \cup { SweepThresholds[k] : k \in 1..Len(SweepThresholds) } \cup {0}

\* the ledger the same call returns at another threshold
LedgerAt(threshold) ==
    backtest_threshold(cot_data, price_data, threshold, call.capital, call.risk_pct)

\* C5: for thresholds t1 < t2 on the same data, the trades selected at t1 are a subset
\* of those selected at t2, so the trade count does not grow as the threshold is
\* lowered (a None result counting as zero trades).
C5_ThresholdMonotone ==
    BacktestReturned =>
        \A t2 \in ComparedThresholds :
            call.threshold < t2 =>
                /\ TradedDates(ret) \subseteq TradedDates(LedgerAt(t2))
                /\ Len(RowsOf(ret)) <= Len(RowsOf(LedgerAt(t2)))

\* C5 witness: a ledger with a trade, and a higher threshold that selects more trades
C5_Witness ==
    /\ BacktestReturned
    /\ ret /= None
    /\ \E t2 \in ComparedThresholds :
          call.threshold < t2 /\ Len(RowsOf(ret)) < Len(RowsOf(LedgerAt(t2)))

\* the pips a stop-loss capped trade is booked with
CappedPips(net_pips) == IF net_pips < -50 THEN -50 ELSE net_pips

\* C6: the pips that enter trade_profit are capped on the loss side by the stop-loss:
\* -50 whenever net_pips < -50 and net_pips otherwise, so no trade loses more than the
\* stop-loss (raw -70 pips with spread 3 is booked as -50 pips).
C6_StopLossCapsLoss ==
    (BacktestReturned /\ ret /= None) =>
        \A i \in 1..Len(ret.rows) :
            LET r == ret.rows[i]
            IN  r.trade_profit * (100 * 50 * 10)
                    = CappedPips(r.pips - 3) * 10 * call.capital * call.risk_pct

\* C7: in the ledger, in row order, equity[1] = capital + trade_profit[1] and
\* equity[i] = equity[i-1] + trade_profit[i] for every later row.
C7_EquityContinuity ==
    (BacktestReturned /\ ret /= None) =>
        \A i \in 1..Len(ret.rows) :
            ret.rows[i].equity =
                (IF i = 1 THEN call.capital ELSE ret.rows[i - 1].equity)
                + ret.rows[i].trade_profit

\* C7 witness: a two-trade ledger on a capital that is not the default, with a profit
\* and a loss
C7_Witness ==
    /\ BacktestReturned
    /\ ret /= None
    /\ call.capital /= 10000
    /\ Len(ret.rows) = 2
    /\ \E i, j \in 1..2 : ret.rows[i].trade_profit > 0 /\ ret.rows[j].trade_profit < 0

\* C23: for every simulated trade net_pips = raw pips - spread_pips with
\* spread_pips = 3, subtracted whatever the sign of the raw move (raw 80 gives 77,
\* raw -70 gives -73), and the trade counts as a win if and only if net_pips > 0.
C23_SpreadAlwaysSubtracted ==
    /\ NetPips(80) = 77
    /\ NetPips(-70) = -73
    /\ (BacktestReturned /\ ret /= None) =>
           \A i \in 1..Len(ret.rows) :
               /\ ret.rows[i].net_pips = ret.rows[i].pips - 3
               /\ ret.rows[i].win <=> ret.rows[i].net_pips > 0

\* C23 witness: a ledger whose first trade moved -70 pips and is booked at -73, and
\* whose second trade did not move at all and is booked as a loss of the spread
C23_Witness ==
    /\ BacktestReturned
    /\ ret /= None
    /\ Len(ret.rows) = 2
    /\ ret.rows[1].pips = -70 /\ ret.rows[1].net_pips = -73 /\ ~ ret.rows[1].win
    /\ ret.rows[2].pips = 0 /\ ret.rows[2].net_pips = -3 /\ ~ ret.rows[2].win

\* C24: within one backtest_threshold run the position size is
\* (capital x risk_per_trade) / (stop_loss_pips x 10), computed from the initial
\* capital and the same for every trade: each trade_profit is net_pips x 10 x that
\* size, so two trades of the run with the same pips have the same trade_profit
\* whatever the equity reached between them.
C24_PositionSizeConstant ==
    (BacktestReturned /\ ret /= None) =>
        /\ \A i \in 1..Len(ret.rows) :
               ret.rows[i].trade_profit * (100 * 50 * 10)
                   = ret.rows[i].net_pips * 10 * call.capital * call.risk_pct
        /\ \A i, j \in 1..Len(ret.rows) :
               ret.rows[i].pips = ret.rows[j].pips
                   => ret.rows[i].trade_profit = ret.rows[j].trade_profit

\* C24 witness: a run at risk 1% whose first trade wins, so that the second trade, a
\* loss, is taken at an equity above the initial capital
C24_Witness ==
    /\ BacktestReturned
    /\ ret /= None
    /\ call.risk_pct > 0
    /\ Len(ret.rows) = 2
    /\ ret.rows[1].trade_profit > 0
    /\ ret.rows[1].equity > call.capital
    /\ ret.rows[2].trade_profit < 0

(***************************************************************************)
(* Properties of the statistics.                                           *)
(***************************************************************************)
StatsReturned == call.name = "get_strategy_stats"

\* the ledger get_strategy_stats(threshold) reduces
StatsLedger ==
    backtest_threshold(cot_data, price_data, call.threshold, DEFAULT_CAPITAL, DEFAULT_RISK_PCT)

\* a drawdown fraction is a number <= 0 / is the number 0
NonPositive(d) == d.den /= 0 /\ d.num * d.den <= 0

IsZero(d) == d.den /= 0 /\ d.num = 0

\* row i of an equity curve is a running peak: no earlier row is higher
AtPeak(equity, i) == \A j \in 1..i : equity[j] <= equity[i]

\* C8: for every row of an equity curve, drawdown = (equity - running_peak) /
\* running_peak is <= 0, and is 0 exactly at the rows where equity is at its running
\* peak; hence max_drawdown_pct <= 0.  This holds also when losses drive equity to
\* zero or below.
C8_DrawdownNonPositive ==
    (StatsReturned /\ ret /= None) =>
        LET equity == Column(StatsLedger, "equity")
            drawdown == Drawdown(equity)
        IN  /\ \A i \in 1..Len(equity) :
                  /\ NonPositive(drawdown[i])
                  /\ IsZero(drawdown[i]) <=> AtPeak(equity, i)
            /\ ret.max_drawdown_pct /= [nan |-> TRUE]
            /\ ret.max_drawdown_pct /= [inf |-> "-inf"]
            /\ ret.max_drawdown_pct.pct <= 0

\* C9: with no losing trade among the selected trades, profit_factor is a large finite
\* sentinel: a number that is not below the profit factor the same winning trades
\* would have with one pip of losses (so a ledger without losses never ranks below one
\* with losses); with losing trades it is sum(winning pips) / abs(sum(losing pips)).
C9_ProfitFactorSentinel ==
    (StatsReturned /\ ret /= None) =>
        LET pips == Column(StatsLedger, "net_pips")
            winning_pips == SumSeq(Positive(pips))
            losing_pips == Abs(SumSeq(Negative(pips)))
        IN  IF Len(Negative(pips)) = 0
            THEN ret.profit_factor > 0 /\ ret.profit_factor >= 100 * winning_pips
            ELSE ret.profit_factor = RoundHalfEven(100 * winning_pips, losing_pips)

\* C10: backtest_threshold called with a risk fraction that is zero or negative fails
\* with a configuration error; it never returns a ledger computed from it.
C10_RejectsInvalidRisk ==
    (BacktestReturned /\ call.risk_pct <= 0) => ret = None

(***************************************************************************)
(* Properties of the error returns.                                        *)
(***************************************************************************)
\* what the last backtest_threshold / get_strategy_stats call returns on a Backtester
\* that holds no data at all
NoDataReturn ==
    IF BacktestReturned
    THEN backtest_threshold(None, None, call.threshold, call.capital, call.risk_pct)
    ELSE get_strategy_stats(None, None, call.threshold)

\* the tables align, and no aligned record is below the call's threshold
EmptySelection ==
    /\ AlignedNow /= <<>>
    /\ \A i \in 1..Len(AlignedNow) : ~ (AlignedNow[i].commercial_net < call.threshold)

\* C11: the result of backtest_threshold / get_strategy_stats tells "data loaded and
\* aligned but no report satisfies the threshold" apart from "no data loaded or nothing
\* aligned": the two situations never produce the same return value.
C11_EmptySelectionDistinguished ==
    ((BacktestReturned \/ StatsReturned) /\ EmptySelection) => ret /= NoDataReturn

(***************************************************************************)
(* Properties of the threshold sweep.                                      *)
(***************************************************************************)
AnalyzeReturned == call.name = "analyze_thresholds"

\* the number of aligned records a threshold selects
SelectedCount(threshold) ==
    Len(SelectSeq(AlignedNow, LAMBDA a : a.commercial_net < threshold))

\* the thresholds that have a row in a sweep table
RowThresholds(df) == { df.rows[i].threshold : i \in 1..Len(df.rows) }

\* C12: analyze_thresholds returns a row for a threshold if and only if that threshold
\* selected at least 10 trades: a threshold with fewer than 10 selected trades has no
\* row, and a threshold with 10 or more has one.
C12_RowIffTenTrades ==
    AnalyzeReturned =>
        \A k \in 1..Len(SweepThresholds) :
            SweepThresholds[k] \in RowThresholds(ret)
                <=> SelectedCount(SweepThresholds[k]) >= 10

(***************************************************************************)
(* Properties of DataEngine.load_cot_data.                                 *)
(***************************************************************************)
LoadReturned == call.name = "load_cot_data"

\* the rows the files of the last call contribute, in file order, before the sort
ConcatOfCall == Concat(LoadedFrames(call.data_paths))

\* C13: after a successful load_cot_data over one or more files, cot_data is in
\* ascending cot_date order with no two rows sharing a cot_date, whatever the order and
\* overlap of the input files, and every row has
\* commercial_net = commercial_long - commercial_short.
C13_LoadedSortedUniqueNet ==
    (LoadReturned /\ ret = Bool(TRUE)) =>
        /\ \A i, j \in 1..Len(cot_data.rows) :
               i < j => cot_data.rows[i].cot_date < cot_data.rows[j].cot_date
        /\ \A i \in 1..Len(cot_data.rows) :
               cot_data.rows[i].commercial_net
                   = cot_data.rows[i].commercial_long - cot_data.rows[i].commercial_short

\* C13 witness: a successful load of two files whose rows arrive out of date order and
\* overlap on a date, leaving three reports with a long and a short side
C13_Witness ==
    /\ LoadReturned
    /\ ret = Bool(TRUE)
    /\ Len(call.data_paths) = 2
    /\ \E i, j \in 1..Len(ConcatOfCall) :
           i < j /\ ConcatOfCall[i].cot_date > ConcatOfCall[j].cot_date
    /\ \E i, j \in 1..Len(ConcatOfCall) :
           i < j /\ ConcatOfCall[i].cot_date = ConcatOfCall[j].cot_date
    /\ Len(cot_data.rows) = 3
    /\ \E i \in 1..3 : cot_data.rows[i].commercial_long > 0
                       /\ cot_data.rows[i].commercial_short > 0

\* a file that yields rows: it is read, has a date column, and has a row that is not
\* a MICRO row
YieldsRows(file) == LoadFile(file) /= Skipped /\ Len(LoadFile(file).rows) > 0

\* the dates a table holds
CotDatesOf(df) == { df.rows[i].cot_date : i \in 1..Len(df.rows) }

\* C14: in load_cot_data a file with neither recognised date column is skipped without
\* aborting the load, the reports of the other files being loaded all the same; and
\* when no file yields rows (an empty path list included) the call returns False and
\* leaves cot_data as it was before the call.
C14_SkipsAndReportsEmpty ==
    [][ call'.name = "load_cot_data" =>
            LET data_paths == call'.data_paths
                yielding == { i \in 1..Len(data_paths) : YieldsRows(data_paths[i]) }
            IN  /\ \A i \in yielding :
                       CotDatesOf(LoadFile(data_paths[i])) \subseteq CotDatesOf(cot_data')
                /\ yielding = {} => (ret' = Bool(FALSE) /\ cot_data' = cot_data) ]_vars

(***************************************************************************)
(* Properties of the price loader.                                         *)
(***************************************************************************)
PriceLoadReturned == call.name = "load_price_data_from_file"

\* the rows of the file of the last call whose date and price both parse, as price
\* points, in file order
ValidPricePoints ==
    IF "unreadable" \in DOMAIN call.filepath THEN <<>>
    ELSE LET rows == call.filepath.rows
         IN  PricePointsOf(DropNa([i \in 1..Len(rows) |-> ParsedRow(rows[i])]))

\* C15: if no row of the price file parses to both a valid date and a valid numeric
\* price, load_price_data_from_file returns None; it never returns an empty table.
C15_NoValidRowIsFailure ==
    PriceLoadReturned =>
        /\ ValidPricePoints = <<>> => ret = None
        /\ ret /= None => Len(ret.rows) > 0

\* the number of times a row occurs in a table
Occurrences(rows, r) == Cardinality({ i \in 1..Len(rows) : rows[i] = r })

\* C16: the table the price loader returns is in strictly ascending date order (no two
\* rows share a date) and holds exactly the input rows whose date and price both
\* parsed, each with its parsed values; no other row appears in it.
C16_StrictlyAscendingValidRows ==
    (PriceLoadReturned /\ ret /= None) =>
        /\ \A i, j \in 1..Len(ret.rows) : i < j => ret.rows[i].date < ret.rows[j].date
        /\ Len(ret.rows) = Len(ValidPricePoints)
        /\ \A i \in 1..Len(ret.rows) :
               Occurrences(ret.rows, ret.rows[i]) = Occurrences(ValidPricePoints, ret.rows[i])

(***************************************************************************)
(* Properties of the Backtester on missing data.                           *)
(***************************************************************************)
\* a table the Backtester does not have: None, or without rows
Missing(df) == df = None \/ df.rows = <<>>

ReportReturned == call.name = "generate_report"

\* C17: when cot_data or price_data is None or empty, no Backtester operation raises:
\* align_cot_with_prices, backtest_threshold and get_strategy_stats return None,
\* analyze_thresholds returns an empty table, and generate_report returns a dict with
\* an 'error' key, in whatever order the calls are made, before and after
\* set_price_data.
C17_MissingDataHandled ==
    (Missing(cot_data) \/ Missing(price_data)) =>
        /\ (AlignReturned \/ BacktestReturned \/ StatsReturned) => ret = None
        /\ AnalyzeReturned => ret = DataFrame(<<>>)
        /\ ReportReturned => "error" \in DOMAIN ret

\* C17 witness: generate_report answers with an error on a Backtester that holds COT
\* reports and a price table without rows
C17_Witness ==
    /\ ReportReturned
    /\ ~ Missing(cot_data)
    /\ price_data /= None
    /\ price_data.rows = <<>>
    /\ "error" \in DOMAIN ret

(***************************************************************************)
(* Properties of the Backtester's calls on one another.                    *)
(***************************************************************************)
\* what align_cot_with_prices returns on the tables the Backtester holds
AlignResult == align_cot_with_prices(cot_data, price_data)

\* C18: for a fixed (COT table, price table) pair align_cot_with_prices returns the
\* same record sequence on every call: a backtest_threshold, analyze_thresholds,
\* get_strategy_stats, generate_report or align_cot_with_prices call either leaves both
\* held tables as they were or, writing to one, leaves what align_cot_with_prices
\* returns on them unchanged; and an align_cot_with_prices call returns what the call
\* before it would have.
C18_AlignRepeatable ==
    [][ call'.name /= "set_price_data" =>
            /\ \/ (cot_data' = cot_data /\ price_data' = price_data)
               \/ AlignResult' = AlignResult
            /\ call'.name = "align_cot_with_prices" => ret' = AlignResult ]_vars

\* C18 witness: align_cot_with_prices returns records on a Backtester whose COT table
\* generate_report has already written to
C18_Witness ==
    /\ AlignReturned
    /\ ret /= None
    /\ Len(ret.rows) = 2
    /\ \A i \in 1..Len(cot_data.rows) : "signal_strength" \in DOMAIN cot_data.rows[i]

\* the calls that compute something from the tables
StageCalls ==
    { "align_cot_with_prices", "backtest_threshold", "analyze_thresholds",
      "get_strategy_stats", "generate_report" }

\* C19: no stage mutates the tables it holds: an align_cot_with_prices,
\* backtest_threshold, analyze_thresholds, get_strategy_stats or generate_report call
\* leaves the Backtester's cot_data and price_data, rows and columns, as they were.
C19_StagesLeaveTablesAlone ==
    [][ call'.name \in StageCalls =>
            (cot_data' = cot_data /\ price_data' = price_data) ]_vars

\* the held COT table with its rows in ascending cot_date order
CotByDate == DataFrame(SortByCotDate(cot_data.rows))

\* the records of a returned table, as a set
RecordsOf(df) == { RowsOf(df)[i] : i \in 1..Len(RowsOf(df)) }

\* C20: the result of align_cot_with_prices does not depend on the row order of the
\* COT table: whatever the order of the rows, the records are those the date-ordered
\* table gives, and they are emitted in ascending cot_date order.
C20_RowOrderIndependent ==
    AlignReturned =>
        /\ RecordsOf(ret) = RecordsOf(align_cot_with_prices(CotByDate, price_data))
        /\ \A i, j \in 1..Len(RowsOf(ret)) :
               i < j => RowsOf(ret)[i].cot_date < RowsOf(ret)[j].cot_date

(***************************************************************************)
(* Properties of DataEngine.merge_data.                                    *)
(***************************************************************************)
MergeReturned == call.name = "merge_data"

\* the records the last merge_data call left in merged_data
Merged ==
    IF MergeReturned /\ ret.merged_data /= None
    THEN { ret.merged_data.rows[i] : i \in 1..Len(ret.merged_data.rows) }
    ELSE {}

\* the bars the DataEngine holds
Bars == IF price_data = None THEN {} ELSE { price_data.rows[i] : i \in 1..Len(price_data.rows) }

\* the bars in the trade week of a report
WeekBars(cot_date) == { b \in Bars : cot_date + 3 <= b.date /\ b.date <= cot_date + 8 }

\* C21: every record emitted by merge_data has an entry_date and an exit_date that
\* are dates of bars present in the price series, the ones whose open and close were
\* used as entry_price and exit_price; and a report with no bar in its trade week
\* emits no record.
C21_MergedDatesArePriceDates ==
    MergeReturned =>
        /\ \A r \in Merged :
               /\ \E b \in Bars : b.date = r.entry_date /\ b.open = r.entry_price
               /\ \E b \in Bars : b.date = r.exit_date /\ b.close = r.exit_price
        /\ \A c \in CotReports :
               WeekBars(c.cot_date) = {} => ~ \E r \in Merged : r.cot_date = c.cot_date

\* pips on the configured scale: price_change * PIP_MULTIPLIER
ConfiguredPips(entry_price, exit_price) ==
    ((exit_price - entry_price) * PIP_MULTIPLIER) \div PriceScale

\* C22: one pip scale is applied uniformly: for the entry and exit price of every
\* merged record, the pips merge_data computed, the pips align_cot_with_prices
\* computes from the same two prices and the pips TradeCalculator counts between them
\* are the price change times the configured PIP_MULTIPLIER.
C22_UniformPipScale ==
    \A r \in Merged :
        /\ r.pips_change = ConfiguredPips(r.entry_price, r.exit_price)
        /\ PipsOf(r.exit_price - r.entry_price) = ConfiguredPips(r.entry_price, r.exit_price)
        /\ RiskPips(r.exit_price, r.entry_price, "BUY")
               = Abs(ConfiguredPips(r.entry_price, r.exit_price))

(***************************************************************************)
(* Properties of the sweep, the report and the statistics on long tables.  *)
(***************************************************************************)
\* the metrics a sweep row shares with the statistics of its threshold
SharedMetrics(row, stats) ==
    /\ row.trades = stats.total_trades
    /\ row.win_rate = stats.win_rate
    /\ row.total_pips = stats.total_pips
    /\ row.total_profit = stats.total_profit
    /\ row.max_win_pips = stats.max_win_pips
    /\ row.max_loss_pips = stats.max_loss_pips
    /\ row.max_drawdown_pct = stats.max_drawdown_pct
    /\ row.profit_factor = stats.profit_factor

\* C28: for every threshold that has a row in analyze_thresholds, each metric the row
\* shares with get_strategy_stats(threshold) on the same data (trade count, win_rate,
\* total_pips, profit_factor, max_drawdown_pct, max win and loss pips) has the same
\* value in both, also when the selected trades contain no losing trade.
C28_SweepRowAgreesWithStats ==
    AnalyzeReturned =>
        \A i \in 1..Len(ret.rows) :
            LET stats == get_strategy_stats(cot_data, price_data, ret.rows[i].threshold)
            IN  stats /= None /\ SharedMetrics(ret.rows[i], stats)

\* the rows of the sweep on the held tables, and those with at least 10 trades
SweepRows == analyze_thresholds(cot_data, price_data).rows

TenTradeRows == { i \in 1..Len(SweepRows) : SweepRows[i].trades >= 10 }

\* C29: generate_report includes 'best_threshold' if and only if some
\* analyze_thresholds row has trades >= 10, and then best_threshold is a row with
\* trades >= 10 whose profit_factor is maximal among the rows with trades >= 10, the
\* most negative threshold on ties; a row with fewer than 10 trades is never chosen.
C29_BestThresholdAmongTenTrades ==
    (ReportReturned /\ "error" \notin DOMAIN ret) =>
        /\ "best_threshold" \in DOMAIN ret <=> TenTradeRows /= {}
        /\ TenTradeRows /= {} =>
               /\ ret.best_threshold.trades >= 10
               /\ \E i \in TenTradeRows : ret.best_threshold = SweepRows[i]
               /\ \A j \in TenTradeRows :
                      /\ SweepRows[j].profit_factor <= ret.best_threshold.profit_factor
                      /\ SweepRows[j].profit_factor = ret.best_threshold.profit_factor
                             => ret.best_threshold.threshold <= SweepRows[j].threshold

\* C29 witness: the report names a best threshold while a row with fewer than 10
\* trades has a higher profit_factor, and two rows with 10 trades tie for the best
C29_Witness ==
    /\ ReportReturned
    /\ "best_threshold" \in DOMAIN ret
    /\ \E i \in 1..Len(SweepRows) :
           /\ SweepRows[i].trades < 10
           /\ SweepRows[i].profit_factor > ret.best_threshold.profit_factor
    /\ \E j \in TenTradeRows :
           /\ SweepRows[j].profit_factor = ret.best_threshold.profit_factor
           /\ SweepRows[j].threshold > ret.best_threshold.threshold

\* a day lies in the calendar month ym = <<year, month>>
InMonth(d, ym) ==
    /\ Timestamp(ym[1], ym[2], 1) <= d
    /\ d < (IF ym[2] = 12 THEN Timestamp(ym[1] + 1, 1, 1) ELSE Timestamp(ym[1], ym[2] + 1, 1))

\* C30: for any non-empty get_strategy_stats result, final_equity is the initial
\* capital 10000 plus the sum of trade_profit over the selected trades, roi_pct is
\* (final_equity - 10000) / 10000 x 100 rounded to a tenth, and the trade_profit
\* values of the monthly breakdown sum to that same total profit, each trade being
\* counted in exactly one entry, that of its entry month.
C30_EquityAndMonthlyAddUp ==
    (StatsReturned /\ ret /= None) =>
        LET trades == StatsLedger.rows
            total == SumSeq([i \in 1..Len(trades) |-> trades[i].trade_profit])
            monthly == ret.monthly
        IN  /\ ret.final_equity = 10000 + total
            /\ ret.total_profit = total
            /\ 2 * Abs(ret.roi_pct * 10000 - (ret.final_equity - 10000) * 100 * 10) <= 10000
            /\ SumSeq([k \in 1..Len(monthly) |-> monthly[k].trade_profit]) = total
            /\ \A i \in 1..Len(trades) :
                   Cardinality({ k \in 1..Len(monthly) :
                                   InMonth(trades[i].entry_date, monthly[k].year_month) }) = 1
            /\ \A k \in 1..Len(monthly) :
                   monthly[k].trade_profit =
                       SumSeq([i \in 1..Len(trades) |->
                                  IF InMonth(trades[i].entry_date, monthly[k].year_month)
                                  THEN trades[i].trade_profit ELSE 0])

\* C30 witness: statistics over ten trades entered in three months, several of them
\* in one month, with a profit overall
C30_Witness ==
    /\ StatsReturned
    /\ ret /= None
    /\ ret.total_trades = 10
    /\ Len(ret.monthly) = 3
    /\ ret.final_equity > 10000
    /\ \E k \in 1..3 : ret.monthly[k].trade_profit < 0

(***************************************************************************)
(* Properties of the Sharpe ratio (SharpeSpec)                             *)
(***************************************************************************)
\* the last call was get_strategy_stats and it returned a dict
SharpeReturned == call.name = "get_strategy_stats" /\ ret /= None

\* the pct_return values of the trades the call selected, as the doubles the ledger
\* holds
SelectedPctReturns ==
    LET rows == backtest_threshold(cot_data, price_data, call.threshold,
                                   DEFAULT_CAPITAL, DEFAULT_RISK_PCT).rows
    IN  [i \in 1..Len(rows) |-> PctReturn(rows[i].entry_price, rows[i].exit_price)]

\* C25: get_strategy_stats returns sharpe_ratio = 0 whenever exactly one trade is
\* selected or the pct_return values of the selected trades all coincide.
C25_SharpeZeroOnDegenerateSeries ==
    SharpeReturned =>
        LET pct == SelectedPctReturns
        IN  (Len(pct) = 1 \/ \A i, j \in 1..Len(pct) : pct[i] = pct[j])
                => ret.sharpe_ratio = FZero

====
